---------------------------- MODULE Spec2Model ----------------------------
(***************************************************************************)
(* A model of the UNO rules engine of this repository.                     *)
(*                                                                         *)
(*   hand.ts       the functional Hand module (createHand, canPlay, play,  *)
(*                 draw, checkUnoFailure, catchUnoFailure, sayUno), built  *)
(*                 on the second half of deck.ts (deal, createInitialDeck) *)
(*   handState.ts  the HandState module (createHand, play, draw,           *)
(*                 applyCardEffect, drawCards, reshuffleDeck, sayUno,      *)
(*                 catchUnoFailure), built on the first half of deck.ts    *)
(*                 (dealCard, addToBottom, shuffleDeck)                    *)
(*                                                                         *)
(* Player and card indices are 0-based as in the source; sequences are     *)
(* TLA+ sequences, so the element at source index i is s[i + 1].           *)
(* A card is a record: type, color ("NONE" when the source has undefined), *)
(* number (-1 when undefined), id (its place in createInitialDeck) and obj *)
(* (0 for a card object of the deck, the step that made it for a copy      *)
(* built by handState.ts play with a chosen colour).                       *)
(***************************************************************************)
EXTENDS Integers, Sequences, FiniteSets, TLC

VARIABLES
    impl,      \* which module the caller drives: "hand" or "handState"
    hand,      \* the Hand value of hand.ts
    state,     \* the HandState value of handState.ts
    ev,        \* the last call: operation, arguments, outcome
    pre,       \* the value (hand or state) the last call was applied to
    ghost,     \* history of uno declarations and accusation windows
    steps,     \* number of successful calls so far
    game       \* the Game value of uno.ts

vars == <<impl, hand, state, ev, pre, ghost, steps, game>>

----------------------------------------------------------------------------
(* Bounds of the model *)

\* number of colours of the bounded deck (the program has 4)
SmallColors == 2
\* highest number of the bounded deck (the program has 9)
SmallMaxNumber == 0
\* copies of each action card per colour in the bounded deck (the program has 2)
SmallActionCopies == 1
\* copies of WILD and of WILD DRAW in the bounded deck (the program has 4)
SmallWildCopies == 1
\* most players of a hand that is played
MaxPlayers == 3
\* most cards per player of a hand that is played
MaxCardsPerPlayer == 3
\* most successful calls on one hand
MaxSteps == 5
\* the shuffler cuts its input at 0..MaxCut and may reverse it
MaxCut == 1
\* the cuts of the deck a hand is created from are 0..MaxInitCut
MaxInitCut == 2
\* the colours a play may name are the first MaxChosenColors colours
MaxChosenColors == 1
\* sayUno is called while fewer than MaxDeclarations players have declared
MaxDeclarations == 1
\* createHand is called for 0..MaxCreatePlayers players
MaxCreatePlayers == 11
\* the numbers of the cards of a table go up to:
MaxLegalNumber == 1
\* a game is created with 1..MaxGameCards cards per player
MaxGameCards == 2
\* a game is played for at most MaxGameSteps successful calls
MaxGameSteps == 2
\* the reshuffle loop is followed on discard piles of up to MaxOldDiscard cards
MaxOldDiscard == 3
\* the draw pile that the reshuffle loop builds is kept up to MaxLoopPile cards
MaxLoopPile == 4
\* the target score of a game is SmallTargetScore or the default
SmallTargetScore == 2

----------------------------------------------------------------------------
(* Program constants *)

NumColors == 4
MaxNumber == 9
ActionCopies == 2
WildCopies == 4
MinPlayerCount == 2
MaxPlayerCount == 10
DefaultCardsPerPlayer == 7
DrawCount == 2
WildDrawCount == 4
PenaltyCount == 4
DefaultTargetScore == 500

Undefined == -1
NoColor == "NONE"

colors == <<"RED", "YELLOW", "GREEN", "BLUE">>
HS_colors == <<"RED", "BLUE", "GREEN", "YELLOW">>
ActionTypes == <<"SKIP", "REVERSE", "DRAW">>

----------------------------------------------------------------------------
(* Arrays *)

\* Array.prototype.slice(from, to), 0-based, to exclusive
Slice(s, from, to) ==
    LET a == IF from < 0 THEN 0 ELSE from
        b == IF to > Len(s) THEN Len(s) ELSE to
    IN  IF b <= a THEN << >> ELSE [i \in 1..(b - a) |-> s[a + i]]

Take(s, n) == Slice(s, 0, n)
Drop(s, n) == Slice(s, n, Len(s))
RemoveAt(s, i) == Take(s, i) \o Drop(s, i + 1)
Reverse(s) == [i \in 1..Len(s) |-> s[Len(s) + 1 - i]]
Last(s) == s[Len(s)]

First(s) == s[1]
Rest(s) == Drop(s, 1)

\* Array.prototype.flat() of an array of arrays
RECURSIVE Flatten(_)
Flatten(ss) == IF Len(ss) = 0 THEN << >> ELSE First(ss) \o Flatten(Rest(ss))

RECURSIVE SumLen(_)
SumLen(ss) == IF Len(ss) = 0 THEN 0 ELSE Len(First(ss)) + SumLen(Rest(ss))

\* the remainder operator of the source for its index arithmetic: it takes
\* the sign of its left operand (which the source keeps from being negative
\* by adding playerCount first)
Mod(a, n) == IF a >= 0 THEN a % n ELSE -((-a) % n)

----------------------------------------------------------------------------
(* deck.ts *)

MkCard(t, c, n) == [type |-> t, color |-> c, number |-> n, id |-> 0, obj |-> 0]

\* the numbered cards of one colour: one 0, two each of 1..mx
NumberedOf(c, mx) == [j \in 1..(1 + 2 * mx) |-> MkCard("NUMBERED", c, j \div 2)]

\* the action cards of one colour, deck.ts line 152: two of each type in turn
ActionsOf(c, ac) ==
    [j \in 1..(3 * ac) |-> MkCard(ActionTypes[((j - 1) \div ac) + 1], c, Undefined)]

\* the action cards of one colour, deck.ts line 31: SKIP, REVERSE, DRAW, repeated
HS_ActionsOf(c, ac) ==
    [j \in 1..(3 * ac) |-> MkCard(ActionTypes[((j - 1) % 3) + 1], c, Undefined)]

WildsOf(wc) ==
    [j \in 1..(2 * wc) |->
        MkCard(IF j % 2 = 1 THEN "WILD" ELSE "WILD DRAW", NoColor, Undefined)]

Numbered(cs, nc, mx) == Flatten([i \in 1..nc |-> NumberedOf(cs[i], mx)])

WithIds(s) == [i \in 1..Len(s) |-> [s[i] EXCEPT !.id = i]]

\* createInitialDeck of deck.ts lines 136-165, with the deck's dimensions
\* as parameters; the program's deck is createInitialDeck(4, 9, 2, 4)
createInitialDeck(nc, mx, ac, wc) ==
    WithIds(Numbered(colors, nc, mx)
            \o Flatten([i \in 1..nc |-> ActionsOf(colors[i], ac)])
            \o WildsOf(wc))

\* createInitialDeck of deck.ts lines 17-45
HS_createInitialDeck(nc, mx, ac, wc) ==
    WithIds(Numbered(HS_colors, nc, mx)
            \o Flatten([i \in 1..nc |-> HS_ActionsOf(HS_colors[i], ac)])
            \o WildsOf(wc))

FullDeck == createInitialDeck(NumColors, MaxNumber, ActionCopies, WildCopies)
HS_FullDeck == HS_createInitialDeck(NumColors, MaxNumber, ActionCopies, WildCopies)
SmallDeck ==
    createInitialDeck(SmallColors, SmallMaxNumber, SmallActionCopies, SmallWildCopies)
HS_SmallDeck ==
    HS_createInitialDeck(SmallColors, SmallMaxNumber, SmallActionCopies, SmallWildCopies)

\* deal(deck, count) of deck.ts line 177
deal(deck, count) == <<Take(deck, count), Drop(deck, count)>>

\* dealCard(deck) of deck.ts line 53; the card is the empty sequence when
\* the source returns undefined
dealCard(deck) ==
    IF Len(deck) = 0 THEN <<<< >>, deck>> ELSE <<<<First(deck)>>, Rest(deck)>>

addToBottom(deck, card) == Append(deck, card)
getDeckSize(deck) == Len(deck)

----------------------------------------------------------------------------
(* The injected shuffler: a function that returns a permutation of its     *)
(* input. The model draws the permutation from a family: cut the sequence  *)
(* at k, and optionally reverse it.                                        *)

Shuffle(s, sh) ==
    LET k == IF Len(s) = 0 THEN 0 ELSE sh[1] % Len(s)
        cut == Drop(s, k) \o Take(s, k)
    IN  IF sh[2] THEN Reverse(cut) ELSE cut

Shuffles == (0..MaxCut) \X BOOLEAN
DeckShuffles(deck) == (0..MaxInitCut) \X BOOLEAN

IsWild(card) == card.type = "WILD" \/ card.type = "WILD DRAW"


----------------------------------------------------------------------------
(* hand.ts *)

Ok(v) == [ok |-> TRUE, err |-> "", val |-> v]
\* a play that is refused as illegal after it has turned the direction
Throw_partial(e, v) ==
    IF e \in {"Illegal play", "Invalid play"}
    THEN [ok |-> FALSE, err |-> e, val |-> [v EXCEPT !.direction = -@]]
    ELSE [ok |-> FALSE, err |-> e, val |-> v]

Throw(e, v) == [ok |-> FALSE, err |-> e, val |-> v]

\* dealHands of hand.ts lines 522-537, and the same loop at lines 86-90:
\* player i takes the next cardsPerPlayer cards of the deck
dealHands(deck, playerCount, cardsPerPlayer) ==
    <<[i \in 1..playerCount |->
          Slice(deck, (i - 1) * cardsPerPlayer, i * cardsPerPlayer)],
      Drop(deck, playerCount * cardsPerPlayer)>>

\* the loop of hand.ts lines 96-101 left out: the first deal is taken as it is
ShuffleUntilStarter_once(deck, shs, playerCount, cardsPerPlayer) ==
    IF Len(deck) < playerCount * cardsPerPlayer + 1
    THEN [kind |-> "TypeError", deck |-> deck]
    ELSE [kind |-> "ok", deck |-> deck]

\* the loop of hand.ts lines 96-101: reshuffle the whole deck while the card
\* after the dealt hands is wild. shs are the permutations the shuffler
\* returns, in call order. "TypeError": discard[0] is undefined.
\* "diverge": the loop has not ended when shs is used up.
RECURSIVE ShuffleUntilStarter(_, _, _, _)
ShuffleUntilStarter(deck, shs, playerCount, cardsPerPlayer) ==
    IF Len(deck) < playerCount * cardsPerPlayer + 1
    THEN [kind |-> "TypeError", deck |-> deck]
    ELSE IF ~IsWild(deck[playerCount * cardsPerPlayer + 1])
    THEN [kind |-> "ok", deck |-> deck]
    ELSE IF shs = << >>
    THEN [kind |-> "diverge", deck |-> deck]
    ELSE ShuffleUntilStarter(Shuffle(deck, Head(shs)), Tail(shs),
                             playerCount, cardsPerPlayer)

NoHand ==
    [playerCount |-> 0, hands |-> << >>, drawPile |-> << >>, discardPile |-> << >>,
     dealer |-> 0, playerInTurn |-> Undefined, currentColor |-> NoColor,
     direction |-> 1, saidUno |-> {}]

\* createHand of hand.ts lines 81-132, past the check of the player count, on
\* the deck deck0 = createInitialDeck()
dealtHand(playerCount, dealer, shs, cardsPerPlayer, deck0) ==
    LET r == ShuffleUntilStarter(Shuffle(deck0, Head(shs)), Tail(shs),
                                 playerCount, cardsPerPlayer)
    IN  IF r.kind # "ok" THEN Throw(r.kind, NoHand)
        ELSE
        LET dh == dealHands(r.deck, playerCount, cardsPerPlayer)
            dd == deal(dh[2], 1)
            discard == dd[1]
            drawPile0 == dd[2]
            t == discard[1].type
            nextPlayer == Mod(dealer + 1, playerCount)
            hands == IF t = "DRAW"
                     THEN [dh[1] EXCEPT ![nextPlayer + 1] =
                              @ \o Take(drawPile0, DrawCount)]
                     ELSE dh[1]
            drawPile == IF t = "DRAW" THEN Drop(drawPile0, DrawCount) ELSE drawPile0
            initialPlayer ==
                IF t = "REVERSE" THEN Mod(dealer - 1 + playerCount, playerCount)
                ELSE IF t = "SKIP" \/ t = "DRAW" THEN Mod(dealer + 2, playerCount)
                ELSE Mod(dealer + 1, playerCount)
        IN  Ok([playerCount |-> playerCount,
                hands |-> hands,
                drawPile |-> drawPile,
                discardPile |-> discard,
                dealer |-> dealer,
                playerInTurn |-> initialPlayer,
                currentColor |-> discard[1].color,
                direction |-> IF t = "REVERSE" THEN -1 ELSE 1,
                saidUno |-> {}])

\* createHand with the lower bound of the player count off by one
createHand_rejectsTwo(playerCount, dealer, shs, cardsPerPlayer, deck0) ==
    IF playerCount <= MinPlayerCount \/ playerCount > MaxPlayerCount
    THEN Throw("Invalid number of players", NoHand)
    ELSE dealtHand(playerCount, dealer, shs, cardsPerPlayer, deck0)

\* createHand of hand.ts lines 71-132
createHand(playerCount, dealer, shs, cardsPerPlayer, deck0) ==
    IF playerCount < MinPlayerCount \/ playerCount > MaxPlayerCount
    THEN Throw("Invalid number of players", NoHand)
    ELSE dealtHand(playerCount, dealer, shs, cardsPerPlayer, deck0)

\* topOfDiscard of hand.ts lines 216-218
topOfDiscard(h) == Last(h.discardPile)

\* the test of a WILD DRAW that finds no card of the colour in any hand
HasColor_none(cards, color) == FALSE

HasColor(cards, color) == \E i \in 1..Len(cards) : cards[i].color = color

\* canPlay of hand.ts lines 144-185
canPlay(cardIdx, h) ==
    IF h.playerInTurn = Undefined THEN FALSE
    ELSE IF cardIdx < 0 \/ cardIdx >= Len(h.hands[h.playerInTurn + 1]) THEN FALSE
    ELSE
    LET playerHand == h.hands[h.playerInTurn + 1]
        card == playerHand[cardIdx + 1]
        topCard == topOfDiscard(h)
    IN  CASE card.type = "WILD" -> TRUE
          [] card.type = "WILD DRAW" -> ~HasColor(playerHand, h.currentColor)
          [] card.type = "REVERSE" ->
                card.color = h.currentColor \/ topCard.type = "REVERSE"
          [] card.type \in {"SKIP", "DRAW"} ->
                card.color = h.currentColor \/ card.type = topCard.type
          [] card.type = "NUMBERED" ->
                card.color = h.currentColor
                \/ (topCard.type = "NUMBERED" /\ card.number = topCard.number)
          [] OTHER -> FALSE

\* the test of a drawn card that finds no card playable
canPlayCard_never(card, topCard, playerHand, currentColor) == FALSE

\* canPlayCard of hand.ts lines 233-253
canPlayCard(card, topCard, playerHand, currentColor) ==
    CASE card.type = "WILD" -> TRUE
      [] card.type = "WILD DRAW" -> ~HasColor(playerHand, currentColor)
      [] card.type \in {"SKIP", "REVERSE", "DRAW"} ->
            card.color = currentColor \/ card.type = topCard.type
      [] OTHER ->
            card.color = currentColor
            \/ (card.type = "NUMBERED" /\ topCard.type = "NUMBERED"
                /\ card.number = topCard.number)

\* canPlayAny that looks at the first card of the hand only
canPlayAny_first(h) == canPlay(0, h)

\* canPlayAny of hand.ts lines 196-205
canPlayAny(h) ==
    IF h.playerInTurn = Undefined THEN FALSE
    ELSE LET playerHand == h.hands[h.playerInTurn + 1]
         IN  \E i \in 1..Len(playerHand) :
                canPlayCard(playerHand[i], topOfDiscard(h), playerHand, h.currentColor)

\* the colour to follow left as it was by a play
PlayedColor_kept(chosenColor, card, h) == h.currentColor

\* chosenColor || card.color || hand.currentColor
PlayedColor(chosenColor, card, h) ==
    IF chosenColor # NoColor THEN chosenColor
    ELSE IF card.color # NoColor THEN card.color
    ELSE h.currentColor

\* the next player taken clockwise whatever the direction
NextIndex_clockwise(p, delta, n) == (p + 1) % n

\* the next player without the wrap around the table
NextIndex_unwrapped(p, delta, n) == p + delta

NextIndex(p, delta, n) == Mod(p + delta + n, n)

\* play of hand.ts lines 267-378; sh is the permutation the shuffler returns
\* if it is called
play(cardIdx, chosenColor, h, sh) ==
    IF ~canPlay(cardIdx, h) THEN Throw("Illegal play", h)
    ELSE
    LET currentPlayer == h.playerInTurn
        playerHand == h.hands[currentPlayer + 1]
        card == playerHand[cardIdx + 1]
    IN
    IF IsWild(card) /\ chosenColor = NoColor
    THEN Throw("Must specify color for wild card", h)
    ELSE IF card.color # NoColor /\ chosenColor # NoColor
    THEN Throw("Cannot specify color for colored card", h)
    ELSE
    LET newHands0 == [h.hands EXCEPT ![currentPlayer + 1] = RemoveAt(@, cardIdx)]
        exhausted == (card.type = "DRAW" /\ Len(h.drawPile) < DrawCount)
                     \/ (card.type = "WILD DRAW" /\ Len(h.drawPile) < WildDrawCount)
        newDrawPile0 == IF exhausted
                        THEN h.drawPile \o Shuffle(h.discardPile, sh)
                        ELSE h.drawPile
        newDiscardPile == IF exhausted THEN <<card>> ELSE Append(h.discardPile, card)
        isDraw == card.type = "DRAW" \/ card.type = "WILD DRAW"
        cardCount == IF card.type = "DRAW" THEN DrawCount ELSE WildDrawCount
        targetPlayer == NextIndex(currentPlayer, h.direction, h.playerCount)
        over == Len(newHands0[currentPlayer + 1]) = 0
        newColor == PlayedColor(chosenColor, card, h)
    IN
    IF over
    THEN Ok([h EXCEPT
              !.hands = IF isDraw
                        THEN [newHands0 EXCEPT ![targetPlayer + 1] =
                                 @ \o Take(newDrawPile0, cardCount)]
                        ELSE newHands0,
              !.drawPile = IF isDraw THEN Drop(newDrawPile0, cardCount)
                           ELSE newDrawPile0,
              !.discardPile = newDiscardPile,
              !.playerInTurn = Undefined,
              !.currentColor = newColor])
    ELSE
    LET direction == IF card.type = "REVERSE" THEN h.direction * (-1)
                     ELSE h.direction
        nextPlayer ==
            CASE card.type = "REVERSE" ->
                    IF h.playerCount = 2 THEN currentPlayer
                    ELSE NextIndex(currentPlayer, direction, h.playerCount)
              [] card.type \in {"SKIP", "DRAW", "WILD DRAW"} ->
                    NextIndex(currentPlayer, 2 * direction, h.playerCount)
              [] OTHER -> NextIndex(currentPlayer, direction, h.playerCount)
    IN  Ok([h EXCEPT
              !.hands = IF isDraw
                        THEN [newHands0 EXCEPT ![targetPlayer + 1] =
                                 @ \o Take(newDrawPile0, cardCount)]
                        ELSE newHands0,
              !.drawPile = IF isDraw THEN Drop(newDrawPile0, cardCount)
                           ELSE newDrawPile0,
              !.discardPile = newDiscardPile,
              !.playerInTurn = nextPlayer,
              !.direction = direction,
              !.currentColor = newColor])

\* draw that leaves the drawn card on the draw pile
draw_keepsCard(h, sh) ==
    IF h.playerInTurn = Undefined THEN Throw("Game is over", h)
    ELSE IF Len(h.drawPile) = 0 THEN Throw("TypeError", h)
    ELSE Ok([h EXCEPT
              !.hands = [h.hands EXCEPT ![h.playerInTurn + 1] = Append(@, h.drawPile[1])],
              !.playerInTurn = NextIndex(h.playerInTurn, h.direction, h.playerCount)])

\* draw of hand.ts lines 390-440. With an empty draw pile drawnCard is
\* undefined and canPlayCard reads its type: a TypeError is thrown.
draw(h, sh) ==
    IF h.playerInTurn = Undefined THEN Throw("Game is over", h)
    ELSE IF Len(h.drawPile) = 0 THEN Throw("TypeError", h)
    ELSE
    LET currentPlayer == h.playerInTurn
        drawnCard == h.drawPile[1]
        newHands == [h.hands EXCEPT ![currentPlayer + 1] = Append(@, drawnCard)]
        canPlayDrawn == canPlayCard(drawnCard, topOfDiscard(h),
                                    newHands[currentPlayer + 1], h.currentColor)
        nextPlayer == IF canPlayDrawn THEN currentPlayer
                      ELSE NextIndex(currentPlayer, h.direction, h.playerCount)
    IN  IF Len(h.drawPile) = 1
        THEN Ok([h EXCEPT
                  !.hands = newHands,
                  !.drawPile = Shuffle(Take(h.discardPile, Len(h.discardPile) - 1), sh),
                  !.discardPile = <<Last(h.discardPile)>>,
                  !.playerInTurn = nextPlayer])
        ELSE Ok([h EXCEPT
                  !.hands = newHands,
                  !.drawPile = Drop(h.drawPile, 1),
                  !.playerInTurn = nextPlayer])

\* hasEnded of hand.ts lines 451-455
hasEnded(h) ==
    h.playerInTurn = Undefined \/ \E i \in 1..Len(h.hands) : Len(h.hands[i]) = 0

\* no winner, whatever the hands hold
winner_none(h) == Undefined

\* the winner taken to be the first player whoever emptied a hand
winner_first(h) ==
    IF \E i \in 1..Len(h.hands) : Len(h.hands[i]) = 0 THEN 0 ELSE Undefined

\* winner of hand.ts lines 466-469: the first empty hand, or undefined
winner(h) ==
    IF \E i \in 1..Len(h.hands) : Len(h.hands[i]) = 0
    THEN (CHOOSE i \in 1..Len(h.hands) :
            /\ Len(h.hands[i]) = 0
            /\ \A j \in 1..(i - 1) : Len(h.hands[j]) # 0) - 1
    ELSE Undefined

\* the value of a card with a NUMBERED card worth nothing
CardScore_noNumber(card) ==
    CASE card.type \in {"WILD", "WILD DRAW"} -> 50
      [] card.type \in {"SKIP", "REVERSE", "DRAW"} -> 20
      [] OTHER -> 0

CardScore(card) ==
    CASE card.type \in {"WILD", "WILD DRAW"} -> 50
      [] card.type \in {"SKIP", "REVERSE", "DRAW"} -> 20
      [] card.type = "NUMBERED" -> card.number
      [] OTHER -> 0

RECURSIVE SumScore(_)
SumScore(cards) ==
    IF Len(cards) = 0 THEN 0 ELSE CardScore(First(cards)) + SumScore(Rest(cards))

\* score that is defined, and 0, while the hand is in progress
score_always(h) == 0

\* score of hand.ts lines 480-508
score(h) ==
    IF ~hasEnded(h) \/ winner(h) = Undefined THEN Undefined
    ELSE SumScore(Flatten([i \in 1..Len(h.hands) |->
                              IF i - 1 = winner(h) THEN << >> ELSE h.hands[i]]))

\* checkUnoFailure of hand.ts lines 550-579; "throw" when the accused index
\* is out of range
checkUnoFailure(accused, h) ==
    IF accused < 0 \/ accused >= h.playerCount THEN "throw"
    ELSE IF Len(h.hands[accused + 1]) # 1 THEN "false"
    ELSE IF h.playerInTurn # NextIndex(accused, h.direction, h.playerCount)
    THEN "false"
    ELSE IF accused \in h.saidUno THEN "false"
    ELSE "true"

\* catchUnoFailure of hand.ts lines 592-625
catchUnoFailure(accuser, accused, h, sh) ==
    LET chk == checkUnoFailure(accused, h) IN
    IF chk = "throw" THEN Throw("Invalid accused player", h)
    ELSE IF chk = "false" THEN Throw("Invalid UNO catch", h)
    ELSE
    LET low == Len(h.drawPile) < PenaltyCount
        newDrawPile == IF low
                       THEN h.drawPile
                            \o Shuffle(Take(h.discardPile, Len(h.discardPile) - 1), sh)
                       ELSE h.drawPile
        newDiscardPile == IF low THEN <<Last(h.discardPile)>> ELSE h.discardPile
    IN  Ok([h EXCEPT
              !.hands = [h.hands EXCEPT ![accused + 1] =
                            @ \o Take(newDrawPile, PenaltyCount)],
              !.drawPile = Drop(newDrawPile, PenaltyCount),
              !.discardPile = newDiscardPile])

\* sayUno that does not look whether the hand has ended
sayUno_afterEnd(player, h) ==
    IF player < 0 \/ player >= h.playerCount THEN Throw("Invalid player", h)
    ELSE Ok([h EXCEPT !.saidUno = @ \cup {player}])

\* sayUno of hand.ts lines 638-652
sayUno(player, h) ==
    IF player < 0 \/ player >= h.playerCount THEN Throw("Invalid player", h)
    ELSE IF h.playerInTurn = Undefined THEN Throw("Game is over", h)
    ELSE Ok([h EXCEPT !.saidUno = @ \cup {player}])

----------------------------------------------------------------------------
(* handState.ts *)

\* shuffleDeck of deck.ts lines 47-51: the shuffler is applied to a copy of
\* the deck and its return value is dropped, so the result is the copy as
\* the shuffler left it: sh = <<0, FALSE>> when it does not shuffle in place
shuffleDeck(deck, sh) == Shuffle(deck, sh)

SameObject(c, card) == c.id = card.id /\ c.obj = card.obj

\* nextTurn that leaves the turn where it is
nextTurn_stay(s) == s

\* nextTurn of handState.ts lines 313-318
nextTurn(s) ==
    [s EXCEPT !.currentPlayerIndex =
        Mod(s.currentPlayerIndex + s.direction + s.playerCount, s.playerCount)]

\* reshuffleDeck of handState.ts lines 320-331
reshuffleDeck(s, sh) ==
    IF getDeckSize(s.discardPile) <= 1 THEN s
    ELSE
    LET reversed == Reverse(s.discardPile)
        topCard == First(reversed)
        restCards == Rest(reversed)
        newDrawPile == shuffleDeck(restCards, sh)
    IN  [s EXCEPT !.drawPile = addToBottom(newDrawPile, topCard),
                  !.discardPile = <<topCard>>]

\* one round of the reduce of drawCards, handState.ts lines 290-310
DrawOne(s, sh) ==
    LET d1 == dealCard(s.drawPile)
        s1 == [s EXCEPT !.drawPile = d1[2]]
        s2 == IF d1[1] = << >> THEN reshuffleDeck(s1, sh) ELSE s1
        d2 == IF d1[1] = << >> THEN dealCard(s2.drawPile) ELSE d1
        s3 == [s2 EXCEPT !.drawPile = d2[2]]
    IN  IF d2[1] = << >> THEN s3
        ELSE [s3 EXCEPT !.playerHands[s3.currentPlayerIndex + 1] = @ \o d2[1]]

\* drawCards of handState.ts lines 287-311
RECURSIVE drawCards(_, _, _)
drawCards(s, count, sh) ==
    IF count = 0 THEN s ELSE drawCards(DrawOne(s, sh), count - 1, sh)

\* isValidPlay of handState.ts lines 147-165; lastPlayedCard is the empty
\* sequence when the source has undefined
isValidPlay(s, card) ==
    IF s.lastPlayedCard = << >> THEN TRUE
    ELSE
    LET last == s.lastPlayedCard[1]
        playerHand == s.playerHands[s.currentPlayerIndex + 1]
    IN  CASE card.type = "WILD" -> TRUE
          [] card.type = "WILD DRAW" ->
                ~\E i \in 1..Len(playerHand) :
                    ~SameObject(playerHand[i], card) /\ playerHand[i].color = last.color
          [] OTHER ->
                \/ card.color = last.color
                \/ card.type = last.type
                \/ (card.type = "NUMBERED" /\ last.type = "NUMBERED"
                    /\ card.number = last.number)

\* applyCardEffect of handState.ts lines 254-285
applyCardEffect(s, card, sh) ==
    LET cur == [s EXCEPT !.lastPlayedCard = <<card>>]
        effect ==
            CASE card.type = "SKIP" -> nextTurn(cur)
              [] card.type = "REVERSE" ->
                    LET r == [cur EXCEPT !.direction = cur.direction * (-1)]
                    IN  IF r.playerCount = 2 THEN nextTurn(r) ELSE r
              [] card.type \in {"DRAW", "WILD DRAW"} ->
                    LET targetPlayer == nextTurn(cur).currentPlayerIndex
                        drawn == drawCards(cur,
                                    IF card.type = "DRAW" THEN DrawCount
                                    ELSE WildDrawCount, sh)
                    IN  nextTurn([drawn EXCEPT !.currentPlayerIndex = targetPlayer])
              [] OTHER -> cur
    IN  IF card.type \notin {"DRAW", "WILD DRAW"} THEN nextTurn(effect) ELSE effect

\* play of handState.ts lines 167-220; newObj names the object built by
\* { ...card, color: chosenColor }
HS_play(s, cardIndex, chosenColor, sh, newObj) ==
    IF s.hasEnded THEN Throw("The hand has ended", s)
    ELSE
    LET h == s.playerHands[s.currentPlayerIndex + 1] IN
    IF cardIndex < 0 \/ cardIndex >= Len(h) THEN Throw("Invalid card index", s)
    ELSE
    LET card == h[cardIndex + 1] IN
    IF ~isValidPlay(s, card) THEN Throw("Invalid play", s)
    ELSE IF IsWild(card) /\ chosenColor = NoColor
    THEN Throw("Must choose a color for wild cards", s)
    ELSE IF card.color # NoColor /\ chosenColor # NoColor
    THEN Throw("Cannot choose color for non-wild cards", s)
    ELSE
    LET playedCard == IF chosenColor # NoColor
                      THEN [card EXCEPT !.color = chosenColor, !.obj = newObj]
                      ELSE card
        newState == [s EXCEPT
                       !.playerHands[s.currentPlayerIndex + 1] = RemoveAt(@, cardIndex),
                       !.discardPile = addToBottom(@, playedCard),
                       !.lastPlayedCard = <<playedCard>>]
    IN  IF Len(newState.playerHands[s.currentPlayerIndex + 1]) = 0
        THEN Ok([newState EXCEPT !.hasEnded = TRUE,
                                 !.winner = s.currentPlayerIndex,
                                 !.endCalls = @ + s.onEndCallbacks])
        ELSE Ok(applyCardEffect(newState, playedCard, sh))

\* draw of handState.ts lines 222-252
HS_draw(s, sh) ==
    IF s.hasEnded THEN Throw("The hand has ended", s)
    ELSE
    LET d1 == dealCard(s.drawPile)
        s1 == [s EXCEPT !.drawPile = d1[2]]
        s2 == IF d1[1] = << >> THEN reshuffleDeck(s1, sh) ELSE s1
        d2 == IF d1[1] = << >> THEN dealCard(s2.drawPile) ELSE d1
        s3 == [s2 EXCEPT !.drawPile = d2[2]]
    IN  IF d2[1] = << >> THEN Ok(s3)
        ELSE
        LET s4 == [s3 EXCEPT !.playerHands[s3.currentPlayerIndex + 1] = @ \o d2[1]]
        IN  IF ~isValidPlay(s4, d2[1][1]) THEN Ok(nextTurn(s4)) ELSE Ok(s4)

\* sayUno that takes a declaration back when it is made again
HS_sayUno_toggle(s, playerIndex) ==
    IF s.hasEnded THEN Throw("The hand has ended", s)
    ELSE IF playerIndex < 0 \/ playerIndex >= s.playerCount
    THEN Throw("Invalid player index", s)
    ELSE Ok([s EXCEPT !.unoSaid = IF playerIndex \in @ THEN @ \ {playerIndex}
                                  ELSE @ \cup {playerIndex}])

\* sayUno of handState.ts lines 333-343
HS_sayUno(s, playerIndex) ==
    IF s.hasEnded THEN Throw("The hand has ended", s)
    ELSE IF playerIndex < 0 \/ playerIndex >= s.playerCount
    THEN Throw("Invalid player index", s)
    ELSE Ok([s EXCEPT !.unoSaid = @ \cup {playerIndex}])

\* catchUnoFailure of handState.ts lines 345-372; val is <<state, caught>>
HS_catchUnoFailure(s, accuser, accused, sh) ==
    IF s.hasEnded THEN Throw("The hand has ended", <<s, FALSE>>)
    ELSE IF accused < 0 \/ accused >= s.playerCount
    THEN Throw("Invalid accused player index", <<s, FALSE>>)
    ELSE IF accused \in s.unoSaid \/ Len(s.playerHands[accused + 1]) # 1
    THEN Ok(<<s, FALSE>>)
    ELSE
    LET nextPlayer == Mod(accused + s.direction + s.playerCount, s.playerCount) IN
    IF s.currentPlayerIndex = nextPlayer
    THEN LET currentPlayer == s.currentPlayerIndex
             drawn == drawCards(s, PenaltyCount, sh)
         IN  Ok(<<[drawn EXCEPT !.currentPlayerIndex = currentPlayer,
                                !.unoSaid = @ \cup {accused}], TRUE>>)
    ELSE Ok(<<s, FALSE>>)

\* calculateScore of handState.ts lines 416-441
calculateScore(s) ==
    IF ~s.hasEnded \/ s.winner = Undefined THEN 0
    ELSE SumScore(Flatten([i \in 1..Len(s.playerHands) |->
                              IF i - 1 = s.winner THEN << >> ELSE s.playerHands[i]]))

\* score of handState.ts lines 377-378
HS_score(s) == IF s.hasEnded THEN calculateScore(s) ELSE Undefined

\* playerInTurn that still names a player once the hand has ended
HS_playerInTurn_kept(s) == s.currentPlayerIndex

\* playerInTurn of handState.ts lines 387-388
HS_playerInTurn(s) == IF s.hasEnded THEN Undefined ELSE s.currentPlayerIndex

\* canPlay of handState.ts lines 397-402
HS_canPlay(s, cardIndex) ==
    IF s.hasEnded THEN FALSE
    ELSE LET h == s.playerHands[s.currentPlayerIndex + 1]
         IN  IF cardIndex < 0 \/ cardIndex >= Len(h) THEN FALSE
             ELSE isValidPlay(s, h[cardIndex + 1])

\* dealInitialCards of handState.ts lines 60-88: one card to each player in
\* turn, cardsPerPlayer times; a player is passed over once the pile is empty
dealInitialCards(s, cardsPerPlayer) ==
    LET n == s.playerCount
        dealt == IF n * cardsPerPlayer > Len(s.drawPile) THEN Len(s.drawPile)
                 ELSE n * cardsPerPlayer
        CardsOf(p) == {k \in 0..(dealt - 1) : k % n = p}
    IN  [s EXCEPT
           !.playerHands = [i \in 1..n |->
               [r \in 1..Cardinality(CardsOf(i - 1)) |->
                   s.drawPile[(r - 1) * n + (i - 1) + 1]]],
           !.drawPile = Drop(s.drawPile, dealt)]

\* handleNormalCard with a SKIP starter that skips nobody
handleNormalCard_noSkip(s, card, sh) ==
    LET newState == [s EXCEPT !.discardPile = <<card>>, !.lastPlayedCard = <<card>>]
    IN  CASE card.type = "REVERSE" ->
                [newState EXCEPT
                   !.direction = -1,
                   !.currentPlayerIndex =
                       Mod(s.dealer - 1 + s.playerCount, s.playerCount)]
          [] card.type = "DRAW" ->
                LET targetPlayer == newState.currentPlayerIndex
                    drawn == drawCards(newState, DrawCount, sh)
                IN  nextTurn([drawn EXCEPT !.currentPlayerIndex = targetPlayer])
          [] OTHER -> newState

\* handleNormalCard of handState.ts lines 101-125
handleNormalCard(s, card, sh) ==
    LET newState == [s EXCEPT !.discardPile = <<card>>, !.lastPlayedCard = <<card>>]
    IN  CASE card.type = "REVERSE" ->
                [newState EXCEPT
                   !.direction = -1,
                   !.currentPlayerIndex =
                       Mod(s.dealer - 1 + s.playerCount, s.playerCount)]
          [] card.type = "SKIP" -> nextTurn(newState)
          [] card.type = "DRAW" ->
                LET targetPlayer == newState.currentPlayerIndex
                    drawn == drawCards(newState, DrawCount, sh)
                IN  nextTurn([drawn EXCEPT !.currentPlayerIndex = targetPlayer])
          [] OTHER -> newState

\* startGame of handState.ts lines 90-145; shs are the permutations of the
\* shuffleDeck calls of handleWildCard, in call order. kind is "diverge" when
\* the loop has not ended once shs is used up.
RECURSIVE startGame(_, _)
startGame(s, shs) ==
    LET d == dealCard(s.drawPile)
        afterDraw == [s EXCEPT !.drawPile = d[2]]
    IN  IF d[1] = << >> THEN [kind |-> "ok", val |-> afterDraw]
        ELSE IF IsWild(d[1][1])
        THEN IF shs = << >> THEN [kind |-> "diverge", val |-> afterDraw]
             ELSE startGame([afterDraw EXCEPT !.drawPile =
                                shuffleDeck(addToBottom(afterDraw.drawPile, d[1][1]),
                                            Head(shs))],
                            Tail(shs))
        ELSE [kind |-> "ok",
              val |-> handleNormalCard(afterDraw, d[1][1],
                                       IF shs = << >> THEN <<0, FALSE>> ELSE Head(shs))]

NoState ==
    [playerCount |-> 0, dealer |-> 0, discardPile |-> << >>, drawPile |-> << >>,
     playerHands |-> << >>, currentPlayerIndex |-> 0, direction |-> 1,
     hasEnded |-> FALSE, winner |-> Undefined, onEndCallbacks |-> 0, endCalls |-> 0,
     unoSaid |-> {}, lastPlayedCard |-> << >>]

\* createHand of handState.ts lines 37-58 on the deck deck0 = createInitialDeck();
\* onEndCallbacks is the number of registered callbacks and endCalls the
\* number of times one of them has been called
HS_createHand(playerCount, dealer, shs, cardsPerPlayer, deck0) ==
    IF playerCount < MinPlayerCount \/ playerCount > MaxPlayerCount
    THEN Throw("Invalid number of players", NoState)
    ELSE
    LET initialState ==
            [playerCount |-> playerCount, dealer |-> dealer,
             discardPile |-> << >>,
             drawPile |-> shuffleDeck(deck0, Head(shs)),
             playerHands |-> [i \in 1..playerCount |-> << >>],
             currentPlayerIndex |-> Mod(dealer + 1, playerCount),
             direction |-> 1, hasEnded |-> FALSE, winner |-> Undefined,
             onEndCallbacks |-> 1, endCalls |-> 0,
             unoSaid |-> {}, lastPlayedCard |-> << >>]
        r == startGame(dealInitialCards(initialState, cardsPerPlayer), Tail(shs))
    IN  IF r.kind = "ok" THEN Ok(r.val) ELSE Throw(r.kind, NoState)

----------------------------------------------------------------------------
(* uno.ts, the game over the Hand module (src/unnamed/part_004) *)

NoGame ==
    [playerCount |-> 0, scores |-> << >>, targetScore |-> 0,
     currentHand |-> << >>, winner |-> Undefined]

\* findIndex that finds no score at the target
FindWinner_none(scores, targetScore) == Undefined

\* findIndex of a score at or above the target, Undefined for -1
FindWinner(scores, targetScore) ==
    IF \E i \in 1..Len(scores) : scores[i] >= targetScore
    THEN (CHOOSE i \in 1..Len(scores) :
            /\ scores[i] >= targetScore
            /\ \A j \in 1..(i - 1) : scores[j] < targetScore) - 1
    ELSE Undefined

\* createGame of part_004 lines 57-80; dealer is what the randomizer returns
\* and shs the permutations of the shuffler, currentHand is << >> for
\* undefined
createGame(n, targetScore, dealer, shs, cardsPerPlayer) ==
    IF n < MinPlayerCount THEN Throw("At least 2 players required", NoGame)
    ELSE IF targetScore <= 0 THEN Throw("Target score must be positive", NoGame)
    ELSE
    LET r == createHand(n, dealer, shs, cardsPerPlayer, FullDeck)
    IN  IF ~r.ok THEN Throw(r.err, NoGame)
        ELSE Ok([playerCount |-> n,
                 scores |-> [i \in 1..n |-> 0],
                 targetScore |-> targetScore,
                 currentHand |-> <<r.val>>,
                 winner |-> Undefined])

\* the function on hands a caller of play passes, one of the calls of the
\* Hand module with its arguments bound: c names the call and its arguments,
\* as the history of a game call records them
HandAction(c, h) ==
    CASE c.action = "play" -> play(c.cardIdx, c.chosenColor, h, c.sh)
      [] c.action = "draw" -> draw(h, c.sh)
      [] c.action = "sayUno" -> sayUno(c.player, h)
      [] OTHER -> catchUnoFailure(c.accuser, c.player, h, c.sh)

\* play of part_004 lines 93-123; r is what the function on hands the caller
\* passes makes of g.currentHand at line 98 (it is looked at only when the
\* game has a current hand), shs the permutations the standard shuffler
\* makes for the hand created at line 120 with the default cards per player
Game_play(r, g, shs) ==
    IF g.currentHand = << >> THEN Throw("Game is over", g)
    ELSE
    IF ~r.ok THEN Throw(r.err, g)
    ELSE
    LET h == r.val
        sc == score(h)
    IN
    IF sc = Undefined THEN Ok([g EXCEPT !.currentHand = <<h>>])
    ELSE
    LET w == winner(h)
        newScores == IF w # Undefined THEN [g.scores EXCEPT ![w + 1] = @ + sc]
                     ELSE g.scores
        gameWinner == FindWinner(newScores, g.targetScore)
        nextDealer == (h.dealer + 1) % g.playerCount
    IN  IF gameWinner = Undefined
        THEN LET nh == createHand(g.playerCount, nextDealer, shs,
                                  DefaultCardsPerPlayer, FullDeck)
             IN  IF ~nh.ok THEN Throw(nh.err, g)
                 ELSE Ok([g EXCEPT !.scores = newScores,
                                   !.currentHand = <<nh.val>>,
                                   !.winner = Undefined])
        ELSE Ok([g EXCEPT !.scores = newScores,
                          !.currentHand = << >>,
                          !.winner = gameWinner])

----------------------------------------------------------------------------
(* History kept beside the program state, to state the claims about uno    *)
(* declarations. validUno: the players whose declaration stands, that is,  *)
(* was made while holding at most two cards (just before or after the play *)
(* that leaves one card) and whose hand has not grown to three or more     *)
(* since. open: the player whose play was the last turn and left them with *)
(* one card, while the turn that followed is still in progress. closed:    *)
(* the players who still hold that one card after that turn has passed on. *)

NoGhost == [validUno |-> {}, open |-> Undefined, closed |-> {}]

HoldsOne(hands, p) == p >= 0 /\ p < Len(hands) /\ Len(hands[p + 1]) = 1

GhostAfter(g, op, player, hands0, hands1, turn0, turn1) ==
    LET n == Len(hands1)
        grown == {p \in 0..(n - 1) : Len(hands1[p + 1]) >= 3}
        declared == IF op = "sayUno" /\ Len(hands1[player + 1]) <= 2
                    THEN {player} ELSE {}
        passed == \/ op = "play"
                  \/ (op = "draw" /\ turn1 # turn0)
        opened == IF op = "play" /\ HoldsOne(hands1, turn0) /\ turn1 # Undefined
                  THEN turn0 ELSE Undefined
        open1 == IF op = "play" THEN opened
                 ELSE IF passed THEN Undefined
                 ELSE IF HoldsOne(hands1, g.open) THEN g.open ELSE Undefined
        closing == IF passed /\ g.open # Undefined THEN {g.open} ELSE {}
    IN  [validUno |-> (g.validUno \cup declared) \ grown,
         open |-> open1,
         closed |-> {p \in (g.closed \cup closing) \ {open1} : HoldsOne(hands1, p)}]

----------------------------------------------------------------------------
(* The calls *)

\* players: the player count of the hand the call is made on (of the hand
\* asked for, for createHand). ok: the call returned (it did not throw). caught: a catchUnoFailure call
\* that penalised the accused. advanced: the call returned a new value of the
\* hand (every call that returned, but a catchUnoFailure that caught nobody).
Event(op, r, player, cardIdx, chosenColor, caught) ==
    [op |-> op, ok |-> r.ok, err |-> r.err, player |-> player,
     players |-> IF impl = "hand" THEN hand.playerCount ELSE state.playerCount,
     cardIdx |-> cardIdx, chosenColor |-> chosenColor, caught |-> caught,
     advanced |-> r.ok /\ (op # "catchUnoFailure" \/ caught),
     wasValid |-> player \in ghost.validUno,
     wasClosed |-> player \in ghost.closed]

\* the createHand call that made the hand of a played hand
NoEvent ==
    [op |-> "createHand", ok |-> TRUE, err |-> "", player |-> Undefined,
     players |-> 0, cardIdx |-> Undefined, chosenColor |-> NoColor,
     caught |-> FALSE, advanced |-> TRUE, wasValid |-> FALSE, wasClosed |-> FALSE]

ChosenColors == {colors[i] : i \in 1..MaxChosenColors} \cup {NoColor}
HS_ChosenColors == {HS_colors[i] : i \in 1..MaxChosenColors} \cup {NoColor}

\* the hand of the player in turn, empty when the hand has ended
TurnHand == IF hand.playerInTurn = Undefined THEN << >>
            ELSE hand.hands[hand.playerInTurn + 1]

\* A call on the Hand module with outcome r. A call that threw returned no
\* hand: the caller still holds the hand it held before, and what it can call
\* next is what it could call in the state before, so the model does not
\* continue from the state that records the throw.
HandCall(op, r, player, cardIdx, chosenColor) ==
    /\ impl = "hand"
    /\ ev.advanced
    /\ steps < MaxSteps
    /\ hand' = r.val
    /\ pre' = hand
    /\ ev' = Event(op, r, player, cardIdx, chosenColor, r.ok /\ op = "catchUnoFailure")
    /\ ghost' = IF r.ok
                THEN GhostAfter(ghost, op, player, hand.hands, r.val.hands,
                                hand.playerInTurn, r.val.playerInTurn)
                ELSE ghost
    /\ steps' = IF r.ok THEN steps + 1 ELSE steps
    /\ UNCHANGED <<impl, state, game>>

Play ==
    \E cardIdx \in 0..Len(TurnHand), chosenColor \in ChosenColors, sh \in Shuffles :
        HandCall("play", play(cardIdx, chosenColor, hand, sh),
                 hand.playerInTurn, cardIdx, chosenColor)

Draw ==
    \E sh \in Shuffles :
        HandCall("draw", draw(hand, sh), hand.playerInTurn, Undefined, NoColor)

SayUno ==
    \E player \in 0..hand.playerCount :
        /\ Cardinality(hand.saidUno) < MaxDeclarations
        /\ HandCall("sayUno", sayUno(player, hand), player, Undefined, NoColor)

CatchUnoFailure ==
    \E accuser \in 0..(hand.playerCount - 1), accused \in 0..hand.playerCount,
       sh \in Shuffles :
        HandCall("catchUnoFailure", catchUnoFailure(accuser, accused, hand, sh),
                 accused, Undefined, NoColor)

\* the hand of the player at currentPlayerIndex
HS_TurnHand == IF state.playerCount = 0 THEN << >>
               ELSE state.playerHands[state.currentPlayerIndex + 1]

\* A call on the HandState module with outcome r and new state val; as for
\* HandCall, the model continues only from a call that returned a new state.
HS_Call(op, r, val, player, cardIdx, chosenColor, caught) ==
    /\ impl = "handState"
    /\ ev.advanced
    /\ steps < MaxSteps
    /\ state' = val
    /\ pre' = state
    /\ ev' = Event(op, r, player, cardIdx, chosenColor, caught)
    /\ ghost' = IF r.ok /\ (op # "catchUnoFailure" \/ caught)
                THEN GhostAfter(ghost, op, player, state.playerHands, val.playerHands,
                                HS_playerInTurn(state), HS_playerInTurn(val))
                ELSE ghost
    /\ steps' = IF r.ok /\ (op # "catchUnoFailure" \/ caught) THEN steps + 1 ELSE steps
    /\ UNCHANGED <<impl, hand, game>>

HS_Play ==
    \E cardIndex \in 0..Len(HS_TurnHand), chosenColor \in HS_ChosenColors,
       sh \in Shuffles :
        LET r == HS_play(state, cardIndex, chosenColor, sh, steps + 1)
        IN  HS_Call("play", r, r.val, state.currentPlayerIndex,
                    cardIndex, chosenColor, FALSE)

HS_Draw ==
    \E sh \in Shuffles :
        LET r == HS_draw(state, sh)
        IN  HS_Call("draw", r, r.val, state.currentPlayerIndex,
                    Undefined, NoColor, FALSE)

HS_SayUno ==
    \E playerIndex \in 0..state.playerCount :
        LET r == HS_sayUno(state, playerIndex)
        IN  /\ Cardinality(state.unoSaid) < MaxDeclarations
            /\ HS_Call("sayUno", r, r.val, playerIndex, Undefined, NoColor, FALSE)

HS_CatchUnoFailure ==
    \E accuser \in 0..(state.playerCount - 1), accused \in 0..state.playerCount,
       sh \in Shuffles :
        LET r == HS_catchUnoFailure(state, accuser, accused, sh)
        IN  HS_Call("catchUnoFailure", r, r.val[1], accused,
                    Undefined, NoColor, r.val[2])

----------------------------------------------------------------------------
(* A hand that is played: created on the bounded deck *)

InitShuffles(deck) == {<<s1, s2>> : s1 \in DeckShuffles(deck), s2 \in Shuffles}

Init ==
    /\ \E n \in MinPlayerCount..MaxPlayers, c \in 1..MaxCardsPerPlayer :
       \E dealer \in 0..(n - 1) :
          \/ \E shs \in InitShuffles(SmallDeck) :
                LET r == createHand(n, dealer, shs, c, SmallDeck)
                IN  /\ r.ok
                    /\ impl = "hand"
                    /\ hand = r.val
                    /\ state = NoState
                    /\ pre = r.val
          \/ \E shs \in InitShuffles(HS_SmallDeck) :
                LET r == HS_createHand(n, dealer, shs, c, HS_SmallDeck)
                IN  /\ r.ok
                    /\ impl = "handState"
                    /\ state = r.val
                    /\ hand = NoHand
                    /\ pre = r.val
    /\ ev = [NoEvent EXCEPT !.players =
                 IF impl = "hand" THEN hand.playerCount ELSE state.playerCount]
    /\ ghost = NoGhost
    /\ steps = 0
    /\ game = NoGame

Next ==
    \/ Play
    \/ Draw
    \/ SayUno
    \/ CatchUnoFailure
    \/ HS_Play
    \/ HS_Draw
    \/ HS_SayUno
    \/ HS_CatchUnoFailure

Spec == Init /\ [][Next]_vars

----------------------------------------------------------------------------
(* Creation of a hand from the program's deck of 108 cards, for any player *)
(* count from 0 to MaxCreatePlayers, with the default cards per player.    *)

NoCall == [NoEvent EXCEPT !.op = "none"]
CreateCall(n, r) ==
    [NoEvent EXCEPT !.ok = r.ok, !.err = r.err, !.players = n, !.advanced = r.ok]
Dealers(n) == 0..(IF n = 0 THEN 0 ELSE n - 1)

InitCreate ==
    /\ impl \in {"hand", "handState"}
    /\ hand = NoHand
    /\ state = NoState
    /\ pre = IF impl = "hand" THEN NoHand ELSE NoState
    /\ ev = NoCall
    /\ ghost = NoGhost
    /\ steps = 0
    /\ game = NoGame

CreateHand ==
    \E n \in 0..MaxCreatePlayers : \E dealer \in Dealers(n), shs \in InitShuffles(FullDeck) :
        LET r == createHand(n, dealer, shs, DefaultCardsPerPlayer, FullDeck)
        IN  /\ impl = "hand"
            /\ ev.op = "none"
            /\ hand' = r.val
            /\ pre' = hand
            /\ ev' = CreateCall(n, r)
            /\ UNCHANGED <<impl, state, ghost, steps, game>>

HS_CreateHand ==
    \E n \in 0..MaxCreatePlayers : \E dealer \in Dealers(n), shs \in InitShuffles(HS_FullDeck) :
        LET r == HS_createHand(n, dealer, shs, DefaultCardsPerPlayer, HS_FullDeck)
        IN  /\ impl = "handState"
            /\ ev.op = "none"
            /\ state' = r.val
            /\ pre' = state
            /\ ev' = CreateCall(n, r)
            /\ UNCHANGED <<impl, hand, ghost, steps, game>>

NextCreate ==
    \/ CreateHand
    \/ HS_CreateHand

SpecCreate == InitCreate /\ [][NextCreate]_vars

----------------------------------------------------------------------------
(* Creation of a hand with its arguments on record: the dealer, the cards  *)
(* per player and first, the deck as the first call of the shuffler left   *)
(* it. The deck is the program's or the bounded one, and holds enough      *)
(* cards for the hands, the starter and the two cards of a DRAW starter.   *)

DealCall(n, dealer, c, first, r) ==
    [op |-> "createHand", ok |-> r.ok, err |-> r.err, players |-> n,
     dealer |-> dealer, cardsPerPlayer |-> c, first |-> first]

Enough(deck, n, c) == n * c + 1 + DrawCount <= Len(deck)

DealHand ==
    \E n \in MinPlayerCount..MaxPlayers, c \in 1..MaxCardsPerPlayer,
       deck \in {SmallDeck, FullDeck} :
      \E dealer \in Dealers(n), shs \in InitShuffles(deck) :
        LET r == createHand(n, dealer, shs, c, deck)
        IN  /\ impl = "hand"
            /\ ev.op = "none"
            /\ Enough(deck, n, c)
            /\ hand' = r.val
            /\ pre' = hand
            /\ ev' = DealCall(n, dealer, c, Shuffle(deck, shs[1]), r)
            /\ UNCHANGED <<impl, state, ghost, steps, game>>

HS_DealHand ==
    \E n \in MinPlayerCount..MaxPlayers, c \in 1..MaxCardsPerPlayer,
       deck \in {HS_SmallDeck, HS_FullDeck} :
      \E dealer \in Dealers(n), shs \in InitShuffles(deck) :
        LET r == HS_createHand(n, dealer, shs, c, deck)
        IN  /\ impl = "handState"
            /\ ev.op = "none"
            /\ Enough(deck, n, c)
            /\ state' = r.val
            /\ pre' = state
            /\ ev' = DealCall(n, dealer, c, shuffleDeck(deck, shs[1]), r)
            /\ UNCHANGED <<impl, hand, ghost, steps, game>>

NextDeal ==
    \/ DealHand
    \/ HS_DealHand

SpecDeal == InitCreate /\ [][NextDeal]_vars

----------------------------------------------------------------------------
(* What a call is seen to do: the hand before it (pre) and after it, read   *)
(* the same way for both modules.                                           *)

IsHand == impl = "hand"
PreHands == IF IsHand THEN pre.hands ELSE pre.playerHands
PostHands == IF IsHand THEN hand.hands ELSE state.playerHands
PreTurn == IF IsHand THEN pre.playerInTurn ELSE HS_playerInTurn(pre)
PostTurn == IF IsHand THEN hand.playerInTurn ELSE HS_playerInTurn(state)
PreDirection == pre.direction
PostDirection == IF IsHand THEN hand.direction ELSE state.direction
PostDrawPile == IF IsHand THEN hand.drawPile ELSE state.drawPile
PostDiscardPile == IF IsHand THEN hand.discardPile ELSE state.discardPile
PostWinner == IF IsHand THEN winner(hand) ELSE state.winner
PlayerCount == pre.playerCount

AllCards(hands, drawPile, discardPile) == Flatten(hands) \o drawPile \o discardPile
PreTotal == Len(AllCards(PreHands, pre.drawPile, pre.discardPile))
PostTotal == Len(AllCards(PostHands, PostDrawPile, PostDiscardPile))

\* how often the card of the deck with this id occurs in cards
Occurrences(cards, id) == Cardinality({k \in 1..Len(cards) : cards[k].id = id})

HandLen(hands, p) == Len(hands[p + 1])
\* the hands of all players but those of ps are as they were before the call
OthersUnchanged(ps) ==
    \A q \in 0..(PlayerCount - 1) : q \in ps \/ PostHands[q + 1] = PreHands[q + 1]

\* the card a play call named
PlayedCard == PreHands[ev.player + 1][ev.cardIdx + 1]
IsDrawCard(card) == card.type = "DRAW" \/ card.type = "WILD DRAW"
ForcedCount(card) == IF card.type = "DRAW" THEN DrawCount ELSE WildDrawCount
\* a play call that returned, of a DRAW or WILD DRAW card
PlayedDrawCard == ev.op = "play" /\ ev.ok /\ IsDrawCard(PlayedCard)
\* the cards a forced draw can take: the draw pile and, recycled, the discard
\* pile below its top
Available == Len(pre.drawPile) + Len(pre.discardPile) - 1

----------------------------------------------------------------------------
(* Claims *)

\* C1: in the Hand module every state reached from createHand by calls that
\* succeeded holds each card of the dealt deck exactly once, in the draw
\* pile, the discard pile or one player's hand, so that the sizes of the
\* piles and hands add up to the size of the deck (108 for the program's
\* deck, Len(SmallDeck) for the bounded deck the hands here are dealt from).
C1_CardsConserved ==
    IsHand =>
        LET cards == AllCards(hand.hands, hand.drawPile, hand.discardPile) IN
        /\ Len(cards) = Len(SmallDeck)
        /\ \A i \in 1..Len(SmallDeck) :
              Cardinality({k \in 1..Len(cards) : cards[k] = SmallDeck[i]}) = 1

\* a call of the Hand module has recycled a discard pile of several cards
C1_Recycled ==
    /\ IsHand /\ ev.ok /\ ev.op \in {"play", "draw", "catchUnoFailure"}
    /\ Len(pre.discardPile) >= 3
    /\ Len(hand.discardPile) = 1
    /\ Len(hand.drawPile) >= 1

\* C2: a draw of the HandState module on an empty draw pile reshuffles
\* without losing or duplicating a card: the discard pile becomes its former
\* top card alone, the number of cards in piles and hands is unchanged and no
\* card of the deck is in two places.
C2_ReshuffleConserves ==
    (~IsHand /\ ev.op = "draw" /\ ev.ok /\ pre.drawPile = << >>
       /\ Len(pre.discardPile) >= 2) =>
        /\ state.discardPile = <<Last(pre.discardPile)>>
        /\ PostTotal = PreTotal
        /\ \A id \in 1..Len(HS_SmallDeck) :
              Occurrences(AllCards(PostHands, PostDrawPile, PostDiscardPile), id) <= 1

\* C3: a play of a DRAW (WILD DRAW) card that is not the player's last card
\* gives the next player in the direction of play 2 (4) more cards when that
\* many can be drawn, takes one card from the acting player, leaves every
\* other hand as it was and passes the turn to the player after the next.
C3_DrawCardFrame ==
    (PlayedDrawCard /\ HandLen(PreHands, ev.player) > 1) =>
        LET p == ev.player
            target == NextIndex(p, PreDirection, PlayerCount)
        IN  /\ Available >= ForcedCount(PlayedCard) =>
                  HandLen(PostHands, target)
                      = HandLen(PreHands, target) + ForcedCount(PlayedCard)
            /\ HandLen(PostHands, p) = HandLen(PreHands, p) - 1
            /\ OthersUnchanged({p, target})
            /\ PostTurn = NextIndex(target, PreDirection, PlayerCount)

\* C4: a draw in a hand in progress whose draw pile is empty while the
\* discard pile holds at least two cards does not fail: it recycles the
\* discard pile below its top and gives the player in turn exactly one card.
C4_DrawOnEmptyPile ==
    (ev.op = "draw" /\ PreTurn # Undefined /\ pre.drawPile = << >>
       /\ Len(pre.discardPile) >= 2) =>
        /\ ev.ok
        /\ HandLen(PostHands, PreTurn) = HandLen(PreHands, PreTurn) + 1
        /\ OthersUnchanged({PreTurn})

\* C5: a play of a DRAW (WILD DRAW) card that is the player's last card ends
\* the hand with that player as winner and still gives the next player in
\* the direction of play the 2 (4) forced cards.
C5_FinalDrawCard ==
    (PlayedDrawCard /\ HandLen(PreHands, ev.player) = 1) =>
        LET p == ev.player
            target == NextIndex(p, PreDirection, PlayerCount)
        IN  /\ PostTurn = Undefined
            /\ PostWinner = p
            /\ Available >= ForcedCount(PlayedCard) =>
                  HandLen(PostHands, target)
                      = HandLen(PreHands, target) + ForcedCount(PlayedCard)

\* a catchUnoFailure call whose accused is a player of the hand
CatchCall ==
    ev.op = "catchUnoFailure" /\ ev.player >= 0 /\ ev.player < PlayerCount
\* the players the hand records as having declared uno
Declared(h) == IF IsHand THEN h.saidUno ELSE h.unoSaid
\* the player in turn before the call is the one after the accused
AccusedJustPlayed ==
    PreTurn # Undefined /\ PreTurn = NextIndex(ev.player, PreDirection, PlayerCount)
\* the outcome of catchUnoFailure on the hand before the call, per accuser
CatchOutcome(accuser, sh) ==
    IF IsHand THEN catchUnoFailure(accuser, ev.player, pre, sh)
    ELSE HS_catchUnoFailure(pre, accuser, ev.player, sh)

\* C6: a successful catchUnoFailure gives the accused exactly 4 more cards
\* (when 4 can be drawn, recycling the discard pile), changes no other hand
\* and leaves the player in turn, the direction and the top of the discard
\* pile as they were.
C6_CatchFrame ==
    (CatchCall /\ ev.caught) =>
        /\ Available >= PenaltyCount =>
              HandLen(PostHands, ev.player) = HandLen(PreHands, ev.player) + PenaltyCount
        /\ OthersUnchanged({ev.player})
        /\ PostTurn = PreTurn
        /\ PostDirection = PreDirection
        /\ Last(PostDiscardPile) = Last(pre.discardPile)

\* C7: catchUnoFailure catches exactly when the hand has not ended, the
\* accused holds one card, the accused has no standing uno declaration and
\* the player in turn is the one after the accused; the accuser makes no
\* difference to the outcome.
C7_CatchIff ==
    CatchCall =>
        /\ ev.caught <=> /\ PreTurn # Undefined
                         /\ HandLen(PreHands, ev.player) = 1
                         /\ ~ev.wasValid
                         /\ AccusedJustPlayed
        /\ \A a1, a2 \in 0..(PlayerCount - 1), sh \in Shuffles :
              CatchOutcome(a1, sh) = CatchOutcome(a2, sh)

\* C8: a catchUnoFailure call on a player of the hand whose preconditions do
\* not hold (the hand has ended, the accused does not hold exactly one card,
\* has declared uno, or is not the player before the one in turn) raises no
\* error, reports no catch and leaves the hand as it was.
C8_FailedCatchReturnsFalse ==
    (CatchCall /\ ~(/\ PreTurn # Undefined
                    /\ HandLen(PreHands, ev.player) = 1
                    /\ ev.player \notin Declared(pre)
                    /\ AccusedJustPlayed)) =>
        /\ ev.ok
        /\ ~ev.caught
        /\ IF IsHand THEN hand = pre ELSE state = pre

\* C9: once the turn that followed the play that left the accused with one
\* card has passed on, catchUnoFailure on that player catches nothing, even
\* if the player in turn is again the one after the accused.
C9_WindowCloses ==
    (CatchCall /\ ev.wasClosed) => ~ev.caught

\* C10: createHand with the default cards per player succeeds for 2 to 10
\* players, and for fewer or more it fails with the error of an invalid
\* player count and creates no hand.
C10_PlayerCountBounds ==
    ev.op = "createHand" =>
        IF ev.players >= 2 /\ ev.players <= 10
        THEN /\ ev.ok
             /\ Len(PostHands) = ev.players
             /\ PostTurn \in 0..(ev.players - 1)
        ELSE /\ ~ev.ok
             /\ ev.err = "Invalid number of players"
             /\ hand = NoHand
             /\ state = NoState

\* a hand of 10 players has been created from the deck of 108 cards
C10_TenPlayers ==
    /\ ev.op = "createHand" /\ ev.ok /\ ev.players = 10
    /\ PostTotal = 108
    /\ Len(PostHands) = 10

----------------------------------------------------------------------------
(* A game that is played: created for 2..MaxPlayers players with a target  *)
(* score, then driven by play with the calls of the Hand module as actions *)

GameTargets == {SmallTargetScore, DefaultTargetScore}

\* the hand a game call acts on, NoHand when the game has no current hand
CurrentHand(g) == IF g.currentHand = << >> THEN NoHand ELSE g.currentHand[1]

GameTurnHand ==
    LET h == CurrentHand(game)
    IN  IF h.playerInTurn = Undefined THEN << >> ELSE h.hands[h.playerInTurn + 1]

GameArgs(action, player, cardIdx, chosenColor, accuser, sh) ==
    [action |-> action, player |-> player, cardIdx |-> cardIdx,
     chosenColor |-> chosenColor, accuser |-> accuser, sh |-> sh]

\* a call of play of the game with the action c, a being what the action
\* makes of the current hand; as for a hand, the model goes on only from a
\* call that returned
GameCall(c, a, shs) ==
    LET r == Game_play(a, game, shs)
    IN  /\ ev.advanced
        /\ steps < MaxGameSteps
        /\ game' = r.val
        /\ pre' = game
        /\ ev' = [op |-> "gamePlay", ok |-> r.ok, err |-> r.err, advanced |-> r.ok,
                  call |-> c, shs |-> shs]
        /\ steps' = IF r.ok THEN steps + 1 ELSE steps
        /\ UNCHANGED <<impl, hand, state, ghost>>

\* the shuffles of a call that deals no new hand: the shuffler is not called
NoShuffles == <<<<0, FALSE>>, <<0, FALSE>>>>

\* the action with the outcome a ends the current hand, so that play deals
\* a new one
EndsHand(a) ==
    /\ game.currentHand # << >>
    /\ a.ok
    /\ score(a.val) # Undefined

\* the permutations a draw can ask of the shuffler: it is called when the
\* last card of the draw pile is drawn
DrawShuffles == IF Len(CurrentHand(game).drawPile) <= 1 THEN Shuffles ELSE {<<0, FALSE>>}

GamePlayCard ==
    \E cardIdx \in 0..Len(GameTurnHand), chosenColor \in ChosenColors :
        LET c == GameArgs("play", CurrentHand(game).playerInTurn, cardIdx,
                          chosenColor, Undefined, <<0, FALSE>>)
            a == play(cardIdx, chosenColor, CurrentHand(game), <<0, FALSE>>)
        IN  \E shs \in IF EndsHand(a) THEN InitShuffles(FullDeck) ELSE {NoShuffles} :
                GameCall(c, a, shs)

GameDraw ==
    \E sh \in DrawShuffles :
        GameCall(GameArgs("draw", CurrentHand(game).playerInTurn, Undefined,
                          NoColor, Undefined, sh),
                 draw(CurrentHand(game), sh), NoShuffles)

GameSayUno ==
    \E player \in 0..game.playerCount :
        GameCall(GameArgs("sayUno", player, Undefined, NoColor, Undefined,
                          <<0, FALSE>>),
                 sayUno(player, CurrentHand(game)), NoShuffles)

GameCatchUnoFailure ==
    \E accuser \in 0..(game.playerCount - 1), accused \in 0..game.playerCount :
        GameCall(GameArgs("catchUnoFailure", accused, Undefined, NoColor, accuser,
                          <<0, FALSE>>),
                 catchUnoFailure(accuser, accused, CurrentHand(game), <<0, FALSE>>),
                 NoShuffles)

\* what the caller of createGame configured and the Game does not keep: the
\* cards per player of its props
GameConfig(cardsPerPlayer) == [cardsPerPlayer |-> cardsPerPlayer]

InitGame ==
    /\ \E n \in MinPlayerCount..MaxPlayers, c \in 1..MaxGameCards,
          targetScore \in GameTargets :
       \E dealer \in Dealers(n), shs \in InitShuffles(FullDeck) :
          LET r == createGame(n, targetScore, dealer, shs, c)
          IN  r.ok /\ game = r.val /\ ghost = GameConfig(c)
    /\ impl = "hand"
    /\ hand = NoHand
    /\ state = NoState
    /\ pre = game
    /\ ev = [op |-> "createGame", ok |-> TRUE, err |-> "", advanced |-> TRUE,
             call |-> GameArgs("none", Undefined, Undefined, NoColor, Undefined,
                               <<0, FALSE>>),
             shs |-> << >>]
    /\ steps = 0

NextGame ==
    \/ GamePlayCard
    \/ GameDraw
    \/ GameSayUno
    \/ GameCatchUnoFailure

SpecGame == InitGame /\ [][NextGame]_vars

----------------------------------------------------------------------------
(* Play from a table in the middle of a hand of two players on the deck of *)
(* the program: the player in turn holds a card with a colour and a WILD,  *)
(* the other player a WILD DRAW, one card lies face up and the rest of the *)
(* deck is the draw pile. The card held and the card face up take every    *)
(* type, the first SmallColors colours and the numbers up to               *)
(* MaxLegalNumber; a wild card face up carries the colour chosen for it.   *)

\* the positions in the deck of the cards with a colour among cs
LegalCards(deck, cs) ==
    {i \in 1..Len(deck) :
        /\ ~IsWild(deck[i])
        /\ \E k \in 1..SmallColors : deck[i].color = cs[k]
        /\ deck[i].number <= MaxLegalNumber}

FirstWild(deck) == Len(deck) - 2 * WildCopies + 1

\* the cards face up: a card with a colour, or the third wild card of the
\* deck with a chosen colour
TopCards(deck, cs) ==
    {<<deck[i], deck[i].color>> : i \in LegalCards(deck, cs)}
    \cup {<<deck[FirstWild(deck) + 2], cs[k]>> : k \in 1..SmallColors}

Without(deck, ids) == SelectSeq(deck, LAMBDA c : c.id \notin ids)

TableHands(deck, a) ==
    << <<deck[a], deck[FirstWild(deck)]>>, <<deck[FirstWild(deck) + 1]>> >>

\* a state of hand.ts: the colour chosen for a wild card is currentColor
Table(a, top) ==
    [playerCount |-> 2,
     hands |-> TableHands(FullDeck, a),
     drawPile |-> Without(FullDeck, {a, top[1].id, FirstWild(FullDeck),
                                     FirstWild(FullDeck) + 1}),
     discardPile |-> <<top[1]>>,
     dealer |-> 1, playerInTurn |-> 0, currentColor |-> top[2],
     direction |-> 1, saidUno |-> {}]

\* a state of handState.ts: a wild card that was played is a new object
\* with the colour chosen for it
HS_Table(a, top) ==
    LET card == IF IsWild(top[1])
                THEN [top[1] EXCEPT !.color = top[2], !.obj = MaxSteps + 1]
                ELSE top[1]
    IN  [playerCount |-> 2, dealer |-> 1,
         discardPile |-> <<card>>,
         drawPile |-> Without(HS_FullDeck, {a, top[1].id, FirstWild(HS_FullDeck),
                                            FirstWild(HS_FullDeck) + 1}),
         playerHands |-> TableHands(HS_FullDeck, a),
         currentPlayerIndex |-> 0, direction |-> 1,
         hasEnded |-> FALSE, winner |-> Undefined,
         onEndCallbacks |-> 1, endCalls |-> 0,
         unoSaid |-> {}, lastPlayedCard |-> <<card>>]

InitLegal ==
    /\ \/ \E a \in LegalCards(FullDeck, colors),
              top \in TopCards(FullDeck, colors) :
              /\ top[1].id # a
              /\ impl = "hand"
              /\ hand = Table(a, top)
              /\ state = NoState
              /\ pre = hand
       \/ \E a \in LegalCards(HS_FullDeck, HS_colors),
              top \in TopCards(HS_FullDeck, HS_colors) :
              /\ top[1].id # a
              /\ impl = "handState"
              /\ state = HS_Table(a, top)
              /\ hand = NoHand
              /\ pre = state
    /\ ev = NoCall
    /\ ghost = NoGhost
    /\ steps = 0
    /\ game = NoGame

NextLegal ==
    \/ Play
    \/ HS_Play

SpecLegal == InitLegal /\ [][NextLegal]_vars

----------------------------------------------------------------------------
\* a createHand call that returned a hand
Created == ev.op = "createHand" /\ ev.ok
\* the card the hand starts from, and the colour to follow
Starter == Last(PostDiscardPile)
PostColor == IF IsHand THEN hand.currentColor ELSE state.lastPlayedCard[1].color
\* the starter of the deal from the first shuffle, before any reshuffle
FirstStarter == ev.first[ev.players * ev.cardsPerPlayer + 1]

\* C11: the hand createHand returns has a single discard card, which is
\* neither WILD nor WILD DRAW, and its colour is the current colour.
C11_StarterNotWild ==
    Created =>
        /\ Len(PostDiscardPile) = 1
        /\ ~IsWild(Starter)
        /\ PostColor = Starter.color

\* createHand has returned a hand after the first starter was wild
C11_Reflipped == Created /\ IsWild(FirstStarter) /\ ~IsWild(Starter)

\* the hands the module deals from the deck of the first shuffle
FirstHands ==
    IF IsHand
    THEN dealHands(ev.first, ev.players, ev.cardsPerPlayer)[1]
    ELSE dealInitialCards([NoState EXCEPT !.playerCount = ev.players,
                                          !.drawPile = ev.first],
                          ev.cardsPerPlayer).playerHands

\* the cards every player was dealt from the first shuffle are the first
\* cards of the player's hand
KeepsFirstHands ==
    \A p \in 1..ev.players :
        Take(PostHands[p], ev.cardsPerPlayer) = FirstHands[p]

\* C12: when the first starter is WILD or WILD DRAW, the hand createHand
\* returns holds the hands dealt from the first shuffle: the players keep
\* their dealt cards and only the undealt remainder is reshuffled.
C12_WildStarterKeepsHands ==
    (Created /\ IsWild(FirstStarter)) => KeepsFirstHands

\* C13: the starter fixes the opening player and direction: NUMBERED gives
\* the turn to (dealer + 1) mod N in direction +1; REVERSE sets direction -1
\* and gives the turn to (dealer - 1 + N) mod N; SKIP gives the turn to
\* (dealer + 2) mod N; DRAW leaves player (dealer + 1) mod N with
\* cardsPerPlayer + 2 cards and gives the turn to (dealer + 2) mod N.
C13_OpeningPlayer ==
    Created =>
        LET N == ev.players
            t == Starter.type
        IN  /\ t = "NUMBERED" =>
                  PostTurn = (ev.dealer + 1) % N /\ PostDirection = 1
            /\ t = "REVERSE" =>
                  PostTurn = (ev.dealer - 1 + N) % N /\ PostDirection = -1
            /\ t = "SKIP" => PostTurn = (ev.dealer + 2) % N
            /\ t = "DRAW" =>
                  /\ HandLen(PostHands, (ev.dealer + 1) % N) = ev.cardsPerPlayer + DrawCount
                  /\ PostTurn = (ev.dealer + 2) % N

\* a hand of three players has been created with a SKIP starter
C13_SkipStarter == Created /\ Starter.type = "SKIP" /\ ev.players = MaxPlayers

\* the hands of a round-robin deal of deck d: the k-th card (from 0) of
\* player i (from 0) is d[k * N + i]
RoundRobin(d, N, c) ==
    [i \in 1..N |-> [k \in 1..c |-> d[(k - 1) * N + (i - 1) + 1]]]

\* the first cardsPerPlayer cards of every returned hand are the player's
\* cards of a round-robin deal of the deck of the first shuffle
DealtRoundRobin ==
    LET N == ev.players
        c == ev.cardsPerPlayer
    IN  \A i \in 1..N : Take(PostHands[i], c) = RoundRobin(ev.first, N, c)[i]

\* C14: createHand deals round-robin from the shuffled deck d: the k-th card
\* of player i is d[k * N + i], so the first cardsPerPlayer cards of d do not
\* all go to player 0.
C14_RoundRobinDeal ==
    (Created /\ ~IsWild(FirstStarter)) => DealtRoundRobin

\* the colour to follow before the call
PreColor == IF IsHand THEN pre.currentColor ELSE pre.lastPlayedCard[1].color
\* a play call that returned
Played == ev.op = "play" /\ ev.ok
\* the actor held, before the call, a card of the colour to follow
HeldColor ==
    \E i \in 1..Len(PreHands[ev.player + 1]) :
        PreHands[ev.player + 1][i].color = PreColor

\* C15: a WILD DRAW is played only by a player who holds no card of the
\* current colour; with such a card in hand the play is rejected.
C15_WildDrawOnlyWithoutColor ==
    (Played /\ PlayedCard.type = "WILD DRAW") => ~HeldColor

\* a WILD DRAW has been played
C15_WildDrawPlayed == Played /\ PlayedCard.type = "WILD DRAW"

\* the card face up before the call
PreTop == Last(pre.discardPile)
\* a play call of the player in turn with a card of the player's hand
PlayOfHeld ==
    /\ ev.op = "play"
    /\ ev.player >= 0
    /\ IF IsHand THEN pre.playerInTurn # Undefined ELSE ~pre.hasEnded
    /\ ev.cardIdx < Len(PreHands[ev.player + 1])
\* the card matches the colour to follow, the type or the number face up
Matches(card) ==
    \/ card.color = PreColor
    \/ card.type = PreTop.type
    \/ (card.type = "NUMBERED" /\ PreTop.type = "NUMBERED"
        /\ card.number = PreTop.number)

\* C16: a NUMBERED, SKIP, REVERSE or DRAW card of the player in turn, played
\* with no colour chosen, is accepted if and only if its colour is the
\* current colour, or its type is the type of the top discard card, or both
\* are NUMBERED with the same number.
C16_ColouredCardLegality ==
    (PlayOfHeld /\ ~IsWild(PlayedCard) /\ ev.chosenColor = NoColor)
        => (ev.ok <=> Matches(PlayedCard))

\* C17: in the HandState module a WILD card held by the player in turn of a
\* hand in progress can be played: canPlay is true for its index and play
\* with a chosen colour succeeds, also for a WILD that was played before,
\* recycled into the draw pile and drawn again.
C17_HeldWildPlayable ==
    (~IsHand /\ PlayOfHeld /\ PlayedCard.type = "WILD" /\ ev.chosenColor # NoColor)
        => (HS_canPlay(pre, ev.cardIdx) /\ ev.ok)

\* the hand had ended before the call
PreEnded == IF IsHand THEN hasEnded(pre) ELSE pre.hasEnded
\* the module's own test of the card at the index of the call
PreCanPlay == IF IsHand THEN canPlay(ev.cardIdx, pre) ELSE HS_canPlay(pre, ev.cardIdx)
\* the hand, its piles, turn, direction and colour are as before the call
Untouched == IF IsHand THEN hand = pre ELSE state = pre
\* the cases in which play has to fail
MustReject ==
    \/ PreEnded
    \/ ev.cardIdx < 0
    \/ ev.cardIdx >= Len(PreHands[ev.player + 1])
    \/ ~PreCanPlay
    \/ (IsWild(PlayedCard) /\ ev.chosenColor = NoColor)
    \/ (~IsWild(PlayedCard) /\ ev.chosenColor # NoColor)

\* C18: play fails when the hand has ended, when the index is outside the
\* hand of the player in turn, when the card is not legal, when a WILD or
\* WILD DRAW comes with no colour and when a coloured card comes with a
\* colour; a play that fails leaves the hand exactly as it was.
C18_RejectedPlayUntouched ==
    ev.op = "play" =>
        /\ MustReject => ~ev.ok
        /\ ~ev.ok => Untouched

\* a play of a coloured card was refused because a colour was chosen
C18_ColourRefused ==
    /\ ev.op = "play" /\ ~ev.ok /\ ~PreEnded
    /\ ev.cardIdx < Len(PreHands[ev.player + 1])
    /\ PreCanPlay /\ ~IsWild(PlayedCard) /\ ev.chosenColor # NoColor

PreWinner == IF IsHand THEN winner(pre) ELSE pre.winner
PreScore == IF IsHand THEN score(pre) ELSE HS_score(pre)
PostScore == IF IsHand THEN score(hand) ELSE HS_score(state)
PostEnded == IF IsHand THEN hasEnded(hand) ELSE state.hasEnded
\* hands, piles, winner and score are as before the call
SameOutcome ==
    /\ PostHands = PreHands
    /\ PostDrawPile = pre.drawPile
    /\ PostDiscardPile = pre.discardPile
    /\ PostWinner = PreWinner
    /\ PostScore = PreScore

\* C19: an ended hand is terminal: every draw, play and sayUno on it fails,
\* and after any call on it the hand is still ended with the same hands,
\* piles, winner and score.
C19_EndedIsTerminal ==
    (PreEnded /\ ev.op # "createHand") =>
        /\ ev.op \in {"draw", "play", "sayUno"} => ~ev.ok
        /\ PostEnded
        /\ SameOutcome

\* a draw was called on an ended hand
C19_DrawAfterEnd == PreEnded /\ ev.op = "draw"

\* the call took the hand from in progress to ended
Ends == ~PreEnded /\ PostEnded

\* C20: the hand ends only through a play that leaves the acting player with
\* no card; the winner is then the acting player and playerInTurn is
\* undefined. No draw, sayUno or catchUnoFailure ends the hand, and no play
\* that leaves the actor a card.
C20_EndsOnlyByLastCard ==
    Ends =>
        /\ ev.op = "play" /\ ev.ok
        /\ HandLen(PostHands, ev.player) = 0
        /\ PostWinner = ev.player
        /\ PostTurn = Undefined

\* a play of the last card has ended a hand of three players
C20_LastCardPlayed == Ends /\ ev.op = "play" /\ PlayerCount = MaxPlayers

\* a play call that returned and did not end the hand
NonFinalPlay == Played /\ ~PostEnded

\* C21: a non-final play of a REVERSE card negates the direction; with two
\* players the turn returns to the player who played it, with three or more
\* it passes to (actor + new direction) mod N.
C21_ReverseTurn ==
    (NonFinalPlay /\ PlayedCard.type = "REVERSE") =>
        /\ PostDirection = -PreDirection
        /\ PostTurn = IF PlayerCount = 2 THEN ev.player
                      ELSE (ev.player + PostDirection + PlayerCount) % PlayerCount

\* a REVERSE has been played in a hand of three players that goes on
C21_ReversePlayed ==
    NonFinalPlay /\ PlayedCard.type = "REVERSE" /\ PlayerCount = MaxPlayers

\* only the acting player's hand differs from before, and it is the hand
\* before without the played card
OnlyActorLostCard ==
    /\ PostHands[ev.player + 1] = RemoveAt(PreHands[ev.player + 1], ev.cardIdx)
    /\ \A p \in 1..PlayerCount : p # ev.player + 1 => PostHands[p] = PreHands[p]

\* C22: a non-final play by player p with direction d keeps the direction
\* and gives the turn to (p + 2d) mod N for a SKIP and to (p + d) mod N for a
\* NUMBERED or WILD card; only the acting player's hand changes, losing the
\* played card.
C22_SkipAndPlainTurn ==
    (NonFinalPlay /\ PlayedCard.type \in {"SKIP", "NUMBERED", "WILD"}) =>
        LET N == PlayerCount
            d == PreDirection
            k == IF PlayedCard.type = "SKIP" THEN 2 ELSE 1
        IN  /\ PostDirection = d
            /\ PostTurn = (ev.player + k * d + 2 * N) % N
            /\ OnlyActorLostCard

\* a SKIP has been played against the clock in a hand of three players
C22_SkipPlayed ==
    /\ NonFinalPlay /\ PlayedCard.type = "SKIP"
    /\ PlayerCount = MaxPlayers /\ PreDirection = -1

\* C23: in the Hand module currentColor is the colour of the top discard
\* card, unless that card is a wild card, and then it is the colour chosen
\* when the card was played; draw, sayUno, catchUnoFailure and the
\* reshuffles they make change neither currentColor nor the top discard card.
C23_CurrentColor ==
    (IsHand /\ ev.op # "none") =>
        /\ ~IsWild(topOfDiscard(hand)) => hand.currentColor = topOfDiscard(hand).color
        /\ (Played /\ IsWild(PlayedCard)) =>
              hand.currentColor = ev.chosenColor /\ topOfDiscard(hand) = PlayedCard
        /\ ev.op \in {"draw", "sayUno", "catchUnoFailure"} =>
              /\ hand.currentColor = pre.currentColor
              /\ topOfDiscard(hand) = topOfDiscard(pre)

\* the last card of the draw pile was drawn, and the discard pile recycled,
\* under a wild card
C23_DrawUnderWild ==
    /\ IsHand /\ ev.op = "draw" /\ ev.ok
    /\ Len(pre.drawPile) = 1 /\ Len(pre.discardPile) > 1
    /\ IsWild(topOfDiscard(hand))

\* a draw call on a hand in progress with a card on the draw pile
DrawFromPile == ev.op = "draw" /\ ~PreEnded /\ Len(pre.drawPile) > 0
\* the last card of the actor's hand may be played by the actor, by the
\* module's own canPlay
LastCardLegal ==
    LET idx == Len(PostHands[ev.player + 1]) - 1
    IN  IF IsHand THEN canPlay(idx, [hand EXCEPT !.playerInTurn = ev.player])
        ELSE HS_canPlay([state EXCEPT !.currentPlayerIndex = ev.player], idx)

\* C24: a draw from a non-empty draw pile moves the top card of the draw
\* pile (index 0) to the end of the hand of the player in turn and changes
\* no other hand; the turn stays with that player if the drawn card is legal
\* to play from the hand that holds it, and passes to
\* (player + direction) mod N otherwise.
C24_DrawMovesTopCard ==
    DrawFromPile =>
        /\ ev.ok
        /\ PostHands[ev.player + 1] = Append(PreHands[ev.player + 1], pre.drawPile[1])
        /\ \A p \in 1..PlayerCount : p # ev.player + 1 => PostHands[p] = PreHands[p]
        /\ Len(pre.drawPile) > 1 => PostDrawPile = Drop(pre.drawPile, 1)
        /\ PostDirection = PreDirection
        /\ PostTurn = IF LastCardLegal THEN ev.player
                      ELSE (ev.player + PreDirection + PlayerCount) % PlayerCount

\* a card that cannot be played was drawn in a hand of three players
C24_DrawnNotLegal ==
    DrawFromPile /\ ev.ok /\ ~LastCardLegal /\ PlayerCount = MaxPlayers

\* C25: a draw with an empty draw pile and at most one card on the discard
\* pile raises no error: no card is drawn and every hand and pile is as
\* before.
C25_DrawWithNothingToRecycle ==
    (ev.op = "draw" /\ ~PreEnded
        /\ Len(pre.drawPile) = 0 /\ Len(pre.discardPile) <= 1) =>
        /\ ev.ok
        /\ PostHands = PreHands
        /\ PostDrawPile = pre.drawPile
        /\ PostDiscardPile = pre.discardPile

\* sayUno called once more for the same player on the hand after the call
SayUnoAgain ==
    IF IsHand THEN sayUno(ev.player, hand) ELSE HS_sayUno(state, ev.player)
\* the hand after the call with the declarations of the hand before
WithPreDeclared ==
    IF IsHand THEN [hand EXCEPT !.saidUno = pre.saidUno]
    ELSE [state EXCEPT !.unoSaid = pre.unoSaid]
PostDeclared == IF IsHand THEN hand.saidUno ELSE state.unoSaid

\* C26: sayUno is idempotent: on the hand sayUno(p, s) returned, sayUno(p, .)
\* returns the same hand; sayUno changes only the set of declared players,
\* and fails for an index out of range.
C26_SayUnoIdempotent ==
    ev.op = "sayUno" =>
        /\ (ev.player < 0 \/ ev.player >= PlayerCount) => ~ev.ok
        /\ ev.ok =>
              /\ SayUnoAgain = Ok(IF IsHand THEN hand ELSE state)
              /\ WithPreDeclared = pre
              /\ PostDeclared = Declared(pre) \cup {ev.player}

\* sayUno has returned for a player of a hand of three players
C26_Declared == ev.op = "sayUno" /\ ev.ok /\ PlayerCount = MaxPlayers

\* the points of a card: its number, 20 for an action card, 50 for a wild
Points(card) ==
    IF card.type = "NUMBERED" THEN card.number
    ELSE IF card.type \in {"SKIP", "REVERSE", "DRAW"} THEN 20
    ELSE IF card.type \in {"WILD", "WILD DRAW"} THEN 50
    ELSE 0

RECURSIVE HandPoints(_, _)
HandPoints(cards, n) ==
    IF n = 0 THEN 0 ELSE Points(cards[n]) + HandPoints(cards, n - 1)

\* the points left in the hands of the players 1..n other than the winner
RECURSIVE LosersPoints(_, _, _)
LosersPoints(hands, w, n) ==
    IF n = 0 THEN 0
    ELSE (IF n - 1 = w THEN 0 ELSE HandPoints(hands[n], Len(hands[n])))
         + LosersPoints(hands, w, n - 1)

\* C27: score is undefined while the hand is in progress; once the hand has
\* ended it is the sum, over the cards left in the hands of the players
\* other than the winner, of the number of a NUMBERED card, 20 for a SKIP,
\* REVERSE or DRAW and 50 for a WILD or WILD DRAW.
C27_Score ==
    IF PostEnded
    THEN PostScore = LosersPoints(PostHands, PostWinner, Len(PostHands))
    ELSE PostScore = Undefined

\* a hand has ended with a numbered card above 0 left in a loser's hand
C27_EndedWithNumber ==
    /\ PostEnded
    /\ \E p \in 1..Len(PostHands) : \E i \in 1..Len(PostHands[p]) :
          PostHands[p][i].type = "NUMBERED" /\ PostHands[p][i].number > 0

\* a play call of the game that returned
GamePlayed == ev.op = "gamePlay" /\ ev.ok
\* the hand the action of the call made of the current hand
Applied == HandAction(ev.call, pre.currentHand[1]).val
\* the action of the call ended the current hand
HandOver == GamePlayed /\ hasEnded(Applied)
\* no score has reached the target score
BelowTarget == \A i \in 1..Len(game.scores) : game.scores[i] < game.targetScore

TargetReached == ~BelowTarget
\* a play call on a game that was over before the call
PlayAfterGameOver == ev.op = "gamePlay" /\ pre.currentHand = << >>

\* C29: when a hand ends and a player's score is at least the target score,
\* that player is the game's winner and currentHand is undefined; every
\* later play of the game fails with "Game is over"; while no score has
\* reached the target the game has no winner.
C29_GameOver ==
    /\ (HandOver /\ TargetReached) =>
          /\ game.winner # Undefined
          /\ game.scores[game.winner + 1] >= game.targetScore
          /\ \A i \in 1..Len(game.scores) :
                game.scores[i] >= game.targetScore => i = game.winner + 1
          /\ game.currentHand = << >>
    /\ PlayAfterGameOver =>
          /\ ~ev.ok /\ ev.err = "Game is over"
          /\ game = pre
          /\ game.winner # Undefined
    /\ BelowTarget => game.winner = Undefined

\* a play was called on a game that a player other than the first has won
C29_PlayOnWonGame == PlayAfterGameOver /\ pre.winner > 0

\* C30: a play of the game whose action does not end the current hand
\* leaves every score and the winner as they were, and the current hand is
\* the action applied to the current hand before.
C30_RunningHandFrame ==
    (GamePlayed /\ ~hasEnded(Applied)) =>
        /\ game.scores = pre.scores
        /\ game.winner = pre.winner
        /\ game.targetScore = pre.targetScore
        /\ game.currentHand = <<Applied>>

\* a draw was made through the game and the hand goes on
C30_DrawInGame ==
    GamePlayed /\ ~hasEnded(Applied) /\ ev.call.action = "draw"

----------------------------------------------------------------------------
(* The hands of a game and what the game was configured with *)

\* the call dealt a hand: createGame, or a play that ended a hand with every
\* score below the target
DealtByGame == ev.op = "createGame" \/ (HandOver /\ BelowTarget)

\* C31: every hand of a game, the first and each hand started after a hand
\* ended, is dealt with the cards per player the game was configured with.
C31_HandsAsConfigured ==
    DealtByGame =>
        /\ game.currentHand # << >>
        /\ \A i \in 1..game.playerCount :
              Len(game.currentHand[1].hands[i]) = ghost.cardsPerPlayer

\* the first hand of every game is dealt as configured
FirstHandAsConfigured ==
    ev.op = "createGame" =>
        \A i \in 1..game.playerCount :
            Len(game.currentHand[1].hands[i]) = ghost.cardsPerPlayer

----------------------------------------------------------------------------
(* Declarations of uno that were made too early *)

\* a catch, raised while the player after the accused is in turn and that
\* turn is the one that followed the accused's play, against a player who
\* holds one card and whose only declarations were made while holding three
\* or more cards or before the hand grew to three or more cards again; on
\* the Hand module, where a player enters saidUno by sayUno only (the
\* HandState module also records the accused of a successful catch)
CatchOfEarlyDeclarer ==
    /\ IsHand
    /\ CatchCall /\ ~PreEnded
    /\ Len(PreHands[ev.player + 1]) = 1
    /\ AccusedJustPlayed
    /\ ~ev.wasClosed
    /\ ev.player \in Declared(pre)
    /\ ~ev.wasValid

\* C32: a declaration of uno made while holding three or more cards, or made
\* before the hand grew again, does not protect: the player who then comes
\* down to one card is caught by a catchUnoFailure raised while the next
\* player is in turn.
C32_EarlyDeclarationCaught == CatchOfEarlyDeclarer => ev.caught

----------------------------------------------------------------------------
(* The game over the HandState module (handState.ts lines 443-549). A      *)
(* GameState is immutable; the hand it starts carries one end callback,    *)
(* the closure (event) => handleHandEnd(state, event) over the GameState   *)
(* that startNewHand was called with. onEnd holds that captured GameState. *)

NoGameState ==
    [playerCount |-> 0, scores |-> << >>, targetScore |-> 0, cardsPerPlayer |-> 0,
     currentHand |-> << >>, onEnd |-> << >>]

\* winner of handState.ts lines 542-545
GS_winner(g) ==
    IF \E i \in 1..Len(g.scores) : g.scores[i] >= g.targetScore
    THEN (CHOOSE i \in 1..Len(g.scores) :
            /\ g.scores[i] >= g.targetScore
            /\ \A j \in 1..(i - 1) : g.scores[j] < g.targetScore) - 1
    ELSE Undefined

\* lines 502-510 of startNewHand: the game g with the hand that createHand
\* made (outcome r) and the callback over g registered on it
WithHand(g, r) ==
    IF ~r.ok THEN Throw(r.err, g)
    ELSE Ok([g EXCEPT !.currentHand = <<r.val>>,
                      !.onEnd = <<[g EXCEPT !.onEnd = << >>]>>])

\* startNewHand of handState.ts lines 500-514; dealer is what the randomizer
\* returns and shs the permutations of the shuffler
startNewHand(g, dealer, shs) ==
    IF GS_winner(g) = Undefined
    THEN WithHand(g, HS_createHand(g.playerCount, dealer, shs, g.cardsPerPlayer,
                                   HS_FullDeck))
    ELSE Ok([g EXCEPT !.currentHand = << >>])

\* handleHandEnd of handState.ts lines 516-521: handScore reads hasEnded of
\* state.currentHand, a TypeError when the state has no current hand; the
\* score of a hand in progress is undefined and makes the sum NaN, which
\* like Undefined is below every target
handleHandEnd(g, w, dealer, shs) ==
    IF g.currentHand = << >> THEN Throw("TypeError", g)
    ELSE
    LET handScoreValue == HS_score(g.currentHand[1])
        scores == [g.scores EXCEPT ![w + 1] =
                      IF handScoreValue = Undefined THEN Undefined
                      ELSE @ + handScoreValue]
    IN  startNewHand([g EXCEPT !.scores = scores], dealer, shs)

\* what createGame returns of the outcome r of startNewHand: a throw of
\* startNewHand leaves createGame and no game was made
OrNoGame(r) == IF r.ok THEN r ELSE Throw(r.err, NoGameState)

\* createGame of handState.ts lines 468-498: a target score or a number of
\* cards of 0 is replaced by the default
GS_createGame(n, targetScore0, dealer, shs, cardsPerPlayer0) ==
    IF n < MinPlayerCount THEN Throw("At least 2 players are required", NoGameState)
    ELSE
    LET targetScore == IF targetScore0 = 0 THEN DefaultTargetScore ELSE targetScore0
        cardsPerPlayer == IF cardsPerPlayer0 = 0 THEN DefaultCardsPerPlayer
                          ELSE cardsPerPlayer0
    IN  IF targetScore <= 0
        THEN Throw("Target score must be greater than 0", NoGameState)
        ELSE OrNoGame(startNewHand([playerCount |-> n,
                                    scores |-> [i \in 1..n |-> 0],
                                    targetScore |-> targetScore,
                                    cardsPerPlayer |-> cardsPerPlayer,
                                    currentHand |-> << >>,
                                    onEnd |-> << >>], dealer, shs))

\* lines 210-212 of play once the callback has run with outcome cb
AfterCallback(cb, r, s) == IF cb.ok THEN r ELSE Throw(cb.err, s)

\* play of handState.ts lines 167-220 on the hand s of the game g, where r
\* is what lines 167-209 make of s, with the callback of lines 210-212 being
\* the closure that startNewHand registered: what the callback returns is
\* dropped, what it throws leaves play
GS_play(g, s, r, dealer, shs) ==
    IF ~r.ok \/ ~r.val.hasEnded \/ s.onEndCallbacks = 0 THEN r
    ELSE AfterCallback(handleHandEnd(g.onEnd[1], r.val.winner, dealer, shs), r, s)

----------------------------------------------------------------------------
(* A game over the HandState module that is played: created for            *)
(* 2..MaxPlayers players, then the caller plays and draws on the hand the  *)
(* game started. game is the GameState and state the hand the caller holds *)

GS_Call(op, r, cardIdx, chosenColor) ==
    /\ ev.advanced
    /\ steps < MaxGameSteps
    /\ state' = r.val
    /\ pre' = state
    /\ ev' = [op |-> op, ok |-> r.ok, err |-> r.err, advanced |-> r.ok,
              call |-> [player |-> state.currentPlayerIndex, cardIdx |-> cardIdx,
                        chosenColor |-> chosenColor]]
    /\ steps' = IF r.ok THEN steps + 1 ELSE steps
    /\ UNCHANGED <<impl, hand, ghost, game>>

\* the callback of the play with outcome r deals a new hand: the play ends
\* the hand and the state the callback captured has a current hand
CallbackDeals(r) ==
    r.ok /\ r.val.hasEnded /\ game.onEnd[1].currentHand # << >>

\* the dealers the randomizer may return and the permutations of the
\* shuffler, when the callback of the play with outcome r deals
CallbackInputs(r) ==
    IF CallbackDeals(r) THEN Dealers(game.playerCount) \X InitShuffles(HS_FullDeck)
    ELSE {<<0, NoShuffles>>}

\* the play of the card at cardIndex, r being what lines 167-209 make of it
GS_PlayOutcome(r, cardIndex, chosenColor) ==
    \E input \in CallbackInputs(r) :
        GS_Call("play", GS_play(game, state, r, input[1], input[2]), cardIndex, chosenColor)

GS_PlayCard ==
    \E cardIndex \in 0..Len(HS_TurnHand), chosenColor \in HS_ChosenColors :
        GS_PlayOutcome(HS_play(state, cardIndex, chosenColor, <<0, FALSE>>, steps + 1),
                       cardIndex, chosenColor)

GS_Draw ==
    GS_Call("draw", HS_draw(state, <<0, FALSE>>), Undefined, NoColor)

\* createGame returned the game r.val, whose hand the caller holds
GameStarted(r) == r.ok /\ game = r.val /\ state = r.val.currentHand[1]

InitStateGame ==
    /\ \E n \in MinPlayerCount..MaxPlayers, c \in 1..MaxGameCards,
          targetScore \in GameTargets :
       \E dealer \in Dealers(n), shs \in InitShuffles(HS_FullDeck) :
          GameStarted(GS_createGame(n, targetScore, dealer, shs, c))
    /\ impl = "handState"
    /\ hand = NoHand
    /\ pre = state
    /\ ev = [op |-> "createGame", ok |-> TRUE, err |-> "", advanced |-> TRUE,
             call |-> [player |-> Undefined, cardIdx |-> Undefined,
                       chosenColor |-> NoColor]]
    /\ ghost = NoGhost
    /\ steps = 0

NextStateGame ==
    \/ GS_PlayCard
    \/ GS_Draw

SpecStateGame == InitStateGame /\ [][NextStateGame]_vars

\* the play of the call would leave its player without cards
GS_LastCardPlayed ==
    /\ ev.op = "play"
    /\ Len(pre.playerHands[ev.call.player + 1]) = 1
    /\ ev.call.cardIdx = 0
    /\ isValidPlay(pre, pre.playerHands[ev.call.player + 1][1])
    /\ IsWild(pre.playerHands[ev.call.player + 1][1]) <=> ev.call.chosenColor # NoColor

\* C33: in the game over the HandState module, the play that empties a
\* player's hand returns without error, the end callback has been called
\* once with that player as winner, and the score the game keeps for that
\* player has grown by the score of the hand.
C33_HandEndInStateGame ==
    GS_LastCardPlayed =>
        /\ ev.ok
        /\ state.hasEnded /\ state.winner = ev.call.player
        /\ state.endCalls = 1
        /\ game.scores[ev.call.player + 1] = HS_score(state)


----------------------------------------------------------------------------
(* draw, drawCards and reshuffleDeck of the earlier HandState module       *)
(* (src/unnamed/part_000 lines 151-171, 270-290, 297-315), followed step   *)
(* by step through the while loop of reshuffleDeck. pre is the frame of    *)
(* the call: pc, the operation and its count, the state it works on, the   *)
(* round i of drawCards, and the locals of reshuffleDeck.                  *)

Old_Push(s, card) ==
    [s EXCEPT !.playerHands[s.currentPlayerIndex + 1] = Append(@, card)]

\* draw, lines 162-170: the card dealt from pile goes to the player in turn
Old_drawTail(s, pile) ==
    LET d == dealCard(pile)
    IN  IF d[1] = << >> THEN [s EXCEPT !.drawPile = d[2]]
        ELSE LET s1 == Old_Push(s, d[1][1])
                 s2 == IF ~isValidPlay(s1, d[1][1]) THEN nextTurn(s1) ELSE s1
             IN  [s2 EXCEPT !.drawPile = d[2]]

Old_Done(s) == [kind |-> "done", val |-> s, i |-> 0]
Old_Loop(s, i) == [kind |-> "loop", val |-> s, i |-> i]

\* draw, lines 151-160, up to the return or to the loop of reshuffleDeck
Old_draw(s) ==
    LET d == dealCard(s.drawPile)
    IN  IF d[1] # << >> THEN Old_Done(Old_drawTail(s, s.drawPile))
        ELSE IF getDeckSize(s.discardPile) <= 1
        THEN Old_Done(Old_drawTail(s, s.drawPile))
        ELSE Old_Loop(s, 0)

\* drawCards, lines 270-290, from round i with the local draw pile, up to
\* the return or to the loop of reshuffleDeck; s.drawPile is the pile of the
\* state, which only reshuffleDeck replaces
RECURSIVE Old_drawCards(_, _, _, _)
Old_drawCards(s, pile, i, count) ==
    IF i >= count THEN Old_Done([s EXCEPT !.drawPile = pile])
    ELSE
    LET d == dealCard(pile)
    IN  IF d[1] # << >> THEN Old_drawCards(Old_Push(s, d[1][1]), d[2], i + 1, count)
        ELSE IF getDeckSize(s.discardPile) <= 1
        THEN LET d2 == dealCard(s.drawPile)
             IN  Old_drawCards(IF d2[1] = << >> THEN s ELSE Old_Push(s, d2[1][1]),
                               d2[2], i + 1, count)
        ELSE Old_Loop(s, i)

\* the frame of a call that has returned or thrown
Old_Returned(f, s) == [f EXCEPT !.pc = "done", !.s = s]

\* the frame at the while loop of reshuffleDeck, lines 300-301
Old_AtLoop(f, r) ==
    [f EXCEPT !.pc = "loop", !.s = r.val, !.i = r.i,
              !.topCard = dealCard(r.val.discardPile)[1],
              !.newDiscardPile = dealCard(r.val.discardPile)[2],
              !.drawPile = r.val.drawPile]

Old_After(f, r) == IF r.kind = "done" THEN Old_Returned(f, r.val) ELSE Old_AtLoop(f, r)

\* the call is made
Old_Begin ==
    /\ pre.pc = "call"
    /\ pre' = IF pre.s.hasEnded /\ pre.op = "draw" THEN Old_Returned(pre, pre.s)
              ELSE IF pre.op = "draw" THEN Old_After(pre, Old_draw(pre.s))
              ELSE Old_After(pre, Old_drawCards(pre.s, pre.s.drawPile, 0, pre.count))
    /\ ev' = [ev EXCEPT !.ok = ~(pre.s.hasEnded /\ pre.op = "draw"),
                        !.err = IF pre.s.hasEnded /\ pre.op = "draw"
                                THEN "The hand has ended" ELSE ""]
    /\ UNCHANGED <<impl, hand, state, ghost, steps, game>>

\* one test of the while loop of reshuffleDeck, lines 303-306, and, when the
\* test fails, the rest of reshuffleDeck and of the call; steps counts the
\* rounds of the loop up to MaxLoopPile
Old_LoopTest ==
    /\ pre.pc = "loop"
    /\ IF getDeckSize(pre.newDiscardPile) > 0
       THEN LET card == dealCard(pre.newDiscardPile)[1]
            IN  /\ pre' = [pre EXCEPT !.drawPile =
                              IF Len(@) < MaxLoopPile /\ card # << >>
                              THEN addToBottom(@, card[1]) ELSE @]
                /\ steps' = IF steps < MaxLoopPile THEN steps + 1 ELSE steps
       ELSE \E sh \in Shuffles :
            LET shuffled == shuffleDeck(pre.drawPile, sh)
                pile == IF pre.topCard # << >>
                        THEN addToBottom(shuffled, pre.topCard[1]) ELSE shuffled
                s1 == [pre.s EXCEPT !.drawPile = pile]
                d == dealCard(pile)
            IN  /\ pre' = IF pre.op = "draw"
                          THEN Old_Returned(pre, Old_drawTail(s1, pile))
                          ELSE Old_After(pre,
                                  Old_drawCards(IF d[1] = << >> THEN s1
                                                ELSE Old_Push(s1, d[1][1]),
                                                d[2], pre.i + 1, pre.count))
                /\ steps' = steps
    /\ UNCHANGED <<impl, hand, state, ghost, ev, game>>

\* the states a call is made on: two players with two cards each, a discard
\* pile of k cards and a draw pile of d cards, cut from the bounded deck
Old_State(deck, k, d, dealer) ==
    [NoState EXCEPT
        !.playerCount = 2, !.dealer = dealer,
        !.discardPile = Take(deck, k),
        !.drawPile = Slice(deck, k, k + d),
        !.playerHands = <<Slice(deck, k + d, k + d + 2),
                          Slice(deck, k + d + 2, k + d + 4)>>,
        !.currentPlayerIndex = Mod(dealer + 1, 2),
        !.onEndCallbacks = 0,
        !.lastPlayedCard = IF k = 0 THEN << >> ELSE <<deck[k]>>]

InitReshuffle ==
    /\ \E sh \in DeckShuffles(HS_SmallDeck), k \in 0..MaxOldDiscard, d \in 0..1,
          dealer \in 0..1, ended \in BOOLEAN,
          call \in {<<"draw", 1>>, <<"drawCards", DrawCount>>,
                    <<"drawCards", WildDrawCount>>} :
          /\ state = [Old_State(Shuffle(HS_SmallDeck, sh), k, d, dealer)
                         EXCEPT !.hasEnded = ended]
          /\ pre = [pc |-> "call", op |-> call[1], count |-> call[2], s |-> state,
                    i |-> 0, topCard |-> << >>, newDiscardPile |-> << >>,
                    drawPile |-> << >>]
          /\ ev = [op |-> call[1], ok |-> TRUE, err |-> "", advanced |-> TRUE]
    /\ impl = "handState"
    /\ hand = NoHand
    /\ ghost = NoGhost
    /\ steps = 0
    /\ game = NoGame

NextReshuffle ==
    \/ Old_Begin
    \/ Old_LoopTest

SpecReshuffle == InitReshuffle /\ [][NextReshuffle]_vars

\* the program goes on running: a step that can be taken is taken
SpecReshuffleFair == SpecReshuffle /\ WF_vars(NextReshuffle)

\* C34: every draw and every forced draw ends: draw and drawCards called
\* with an empty draw pile and a discard pile of two or more cards return
\* a state after finitely many steps.
C34_DrawTerminates ==
    (Len(state.drawPile) = 0 /\ Len(state.discardPile) >= 2 /\ ~state.hasEnded)
        => <>(pre.pc = "done")


----------------------------------------------------------------------------
(* play and draw of the earlier Hand module (src/unnamed/part_001 lines    *)
(* 78-198), with the arrays of the hand they are given: a call returns     *)
(* val, the hand it built, and arg, the hand it was given as it is after   *)
(* the call. An array of the argument that the result shares and a push    *)
(* writes to is changed in both.                                           *)

\* canPlayCard of part_001 lines 99-110
P1_canPlayCard(card, topCard, playerHand, currentColor) ==
    CASE card.type = "WILD" -> TRUE
      [] card.type = "WILD DRAW" ->
            ~\E i \in 1..Len(playerHand) : playerHand[i].color = currentColor
      [] OTHER ->
            \/ card.color = currentColor
            \/ (card.type = topCard.type /\ card.type \in {"SKIP", "REVERSE", "DRAW"})
            \/ (card.type = "NUMBERED" /\ topCard.type = "NUMBERED"
                    /\ card.number = topCard.number)

\* canPlayAny of part_001 lines 86-93: !hand.playerInTurn holds for player 0
\* as for undefined
P1_canPlayAny(h) ==
    IF h.playerInTurn = Undefined \/ h.playerInTurn = 0 THEN FALSE
    ELSE LET playerHand == h.hands[h.playerInTurn + 1]
         IN  \E i \in 1..Len(playerHand) :
                P1_canPlayCard(playerHand[i], topOfDiscard(h), playerHand,
                               h.currentColor)

\* canPlay of part_001 lines 78-84, which takes its argument for a player
P1_canPlay(playerIdx, h) ==
    IF playerIdx < 0 \/ playerIdx >= h.playerCount \/ h.playerInTurn # playerIdx
    THEN FALSE
    ELSE P1_canPlayAny(h)

P1_Ok(v, a) == [ok |-> TRUE, err |-> "", val |-> v, arg |-> a]
P1_Throw(e, a) == [ok |-> FALSE, err |-> e, val |-> a, arg |-> a]

\* play of part_001 lines 111-172. newHands = hand.hands.map(...) holds a new
\* array for the player in turn and, for every other player, the array of
\* the argument itself: the push of lines 155 and 159 appends the drawn
\* cards to the target's array in the argument and in the result alike
P1_play(cardIdx, chosenColor, h) ==
    IF ~P1_canPlay(cardIdx, h) THEN P1_Throw("Illegal play", h)
    ELSE
    LET p == h.playerInTurn
        playerHand == h.hands[p + 1]
    IN  IF cardIdx >= Len(playerHand) THEN P1_Throw("TypeError", h)
    ELSE
    LET card == playerHand[cardIdx + 1] IN
    IF IsWild(card) /\ chosenColor = NoColor
    THEN P1_Throw("Must specify color for wild card", h)
    ELSE
    LET n == h.playerCount
        filtered == [h.hands EXCEPT ![p + 1] = RemoveAt(@, cardIdx)]
        newDiscardPile == Append(h.discardPile, card)
        color == PlayedColor(chosenColor, card, h)
    IN  IF Len(filtered[p + 1]) = 0
        THEN P1_Ok([h EXCEPT !.hands = filtered, !.discardPile = newDiscardPile,
                             !.playerInTurn = Undefined, !.currentColor = color], h)
        ELSE
        LET direction == IF card.type = "REVERSE" THEN -h.direction ELSE h.direction
            one == Mod(p + h.direction + n, n)
            two == Mod(p + 2 * h.direction + n, n)
            nextPlayer ==
                CASE card.type = "REVERSE" -> IF n = 2 THEN p
                                              ELSE Mod(p + h.direction + n, n)
                  [] card.type \in {"SKIP", "DRAW", "WILD DRAW"} -> two
                  [] OTHER -> one
            count == CASE card.type = "DRAW" -> DrawCount
                       [] card.type = "WILD DRAW" -> WildDrawCount
                       [] OTHER -> 0
            drawn == Slice(h.drawPile, 0, count)
            shared == one # p
            newHands == [filtered EXCEPT ![one + 1] = @ \o drawn]
            argHands == IF shared THEN [h.hands EXCEPT ![one + 1] = @ \o drawn]
                        ELSE h.hands
        IN  P1_Ok([h EXCEPT !.hands = newHands,
                            !.drawPile = Drop(h.drawPile, count),
                            !.discardPile = newDiscardPile,
                            !.playerInTurn = nextPlayer,
                            !.direction = direction,
                            !.currentColor = color],
                  [h EXCEPT !.hands = argHands])

\* draw of part_001 lines 174-198: every array it writes to is new
P1_draw(h) ==
    IF h.playerInTurn = Undefined \/ h.playerInTurn = 0
    THEN P1_Throw("Game is over", h)
    ELSE IF Len(h.drawPile) = 0 THEN P1_Throw("TypeError", h)
    ELSE
    LET p == h.playerInTurn
        drawnCard == First(h.drawPile)
        newHands == [h.hands EXCEPT ![p + 1] = Append(@, drawnCard)]
        kept == P1_canPlayCard(drawnCard, topOfDiscard(h), newHands[p + 1],
                               h.currentColor)
    IN  P1_Ok([h EXCEPT !.hands = newHands, !.drawPile = Rest(h.drawPile),
                        !.playerInTurn =
                            IF kept THEN p
                            ELSE Mod(p + h.direction + h.playerCount, h.playerCount)],
              h)


\* createHand of part_001 lines 17-76: that of hand.ts, but for a DRAW card
\* as starter, after which the player next to the dealer opens
P1_createHand(playerCount, dealer, shs, cardsPerPlayer, deck0) ==
    LET r == createHand(playerCount, dealer, shs, cardsPerPlayer, deck0)
    IN  IF r.ok /\ topOfDiscard(r.val).type = "DRAW"
        THEN Ok([r.val EXCEPT !.playerInTurn = Mod(dealer + 1, playerCount)])
        ELSE r

\* A call on the earlier Hand module with outcome r: hand is the hand it
\* returned, pre the hand it was given as it was before the call and ghost
\* the same hand as it is after the call
P1_Call(op, r, cardIdx, chosenColor) ==
    /\ ev.advanced
    /\ steps < MaxSteps
    /\ hand' = r.val
    /\ pre' = hand
    /\ ghost' = r.arg
    /\ ev' = [op |-> op, ok |-> r.ok, err |-> r.err, advanced |-> r.ok,
              call |-> [cardIdx |-> cardIdx, chosenColor |-> chosenColor]]
    /\ steps' = IF r.ok THEN steps + 1 ELSE steps
    /\ UNCHANGED <<impl, state, game>>

P1_Play ==
    \E cardIdx \in 0..Len(TurnHand), chosenColor \in ChosenColors :
        P1_Call("play", P1_play(cardIdx, chosenColor, hand), cardIdx, chosenColor)

P1_Draw == P1_Call("draw", P1_draw(hand), Undefined, NoColor)

InitPure ==
    /\ \E n \in MinPlayerCount..MaxPlayers, c \in 1..MaxCardsPerPlayer :
       \E dealer \in 0..(n - 1), shs \in InitShuffles(SmallDeck) :
          LET r == P1_createHand(n, dealer, shs, c, SmallDeck)
          IN  r.ok /\ hand = r.val
    /\ impl = "hand"
    /\ state = NoState
    /\ pre = hand
    /\ ghost = hand
    /\ ev = [op |-> "createHand", ok |-> TRUE, err |-> "", advanced |-> TRUE,
             call |-> [cardIdx |-> Undefined, chosenColor |-> NoColor]]
    /\ steps = 0
    /\ game = NoGame

NextPure ==
    \/ P1_Play
    \/ P1_Draw

SpecPure == InitPure /\ [][NextPure]_vars

\* the call of the last step made once more on the hand it was given
P1_Again ==
    IF ev.op = "play" THEN P1_play(ev.call.cardIdx, ev.call.chosenColor, ghost)
    ELSE P1_draw(ghost)

\* C35: a call of play or draw that returns leaves the hand it was given as
\* it was (hands and piles are the same before and after the call), and the
\* same call made again on that hand returns an equal hand.
C35_PureAndDeterministic ==
    (ev.op \in {"play", "draw"} /\ ev.ok) =>
        /\ ghost.hands = pre.hands
        /\ ghost.drawPile = pre.drawPile
        /\ ghost.discardPile = pre.discardPile
        /\ P1_Again.ok /\ P1_Again.val = hand

----------------------------------------------------------------------------
(* The turn and the direction of a hand in progress *)

\* the index the module keeps for the player in turn
TurnIndex == IF IsHand THEN hand.playerInTurn ELSE state.currentPlayerIndex

\* one and two places on from every player, in both directions and for every
\* player count of the program, is a player: by NextIndex for the Hand
\* module and by nextTurn for the HandState module
TurnArithmetic ==
    \A n \in MinPlayerCount..MaxPlayerCount, p \in 0..(MaxPlayerCount - 1),
       d \in {1, -1} :
        p < n =>
            /\ NextIndex(p, d, n) \in 0..(n - 1)
            /\ NextIndex(p, 2 * d, n) \in 0..(n - 1)
            /\ LET s == [NoState EXCEPT !.playerCount = n, !.direction = d,
                                        !.currentPlayerIndex = p]
               IN  /\ nextTurn(s).currentPlayerIndex \in 0..(n - 1)
                   /\ nextTurn(nextTurn(s)).currentPlayerIndex \in 0..(n - 1)

\* C36: while the hand is in progress the player in turn is an index of a
\* player and the direction is 1 or -1, whatever was played, SKIP and
\* REVERSE against the clock included; playerInTurn is absent exactly when
\* the hand has ended.
C36_TurnInRange ==
    /\ ~PostEnded =>
          /\ TurnIndex \in 0..(Len(PostHands) - 1)
          /\ PostDirection \in {1, -1}
    /\ PostTurn = Undefined <=> PostEnded
    /\ ev.op = "createHand" => TurnArithmetic

\* a SKIP played against the clock by player 0 or 1, so that the turn wraps
\* around the table, in a hand that goes on
C36_SkipAgainstTheClock ==
    /\ Played /\ ~PostEnded
    /\ PlayedCard.type = "SKIP"
    /\ PreDirection = -1
    /\ ev.player < 2
    /\ PlayerCount = MaxPlayers


----------------------------------------------------------------------------
(* The three views of the end of a hand, in the Hand module *)

\* the players of the hand who hold no card
EmptyHanded == {i \in 0..(Len(hand.hands) - 1) : Len(hand.hands[i + 1]) = 0}

\* the call was a play that ended the hand
EndingPlay == IsHand /\ Played /\ ~hasEnded(pre) /\ hasEnded(hand)

----------------------------------------------------------------------------
(* canPlayAny against canPlay, in the Hand module *)

\* some card of the player in turn passes canPlay
SomeCanPlay(h) == \E i \in 0..(Len(h.hands[h.playerInTurn + 1]) - 1) : canPlay(i, h)

\* the table of two players where the player in turn holds the card a alone
Holding(a, top) == [Table(a, top) EXCEPT !.hands[1] = <<FullDeck[a]>>]

\* canPlayAny and canPlay agree on every card with a colour held alone, on
\* every card face up, numbers that differ included
AgreeOnEveryCard ==
    \A a \in LegalCards(FullDeck, colors), top \in TopCards(FullDeck, colors) :
        top[1].id # a =>
            (canPlayAny(Holding(a, top)) <=> canPlay(0, Holding(a, top)))

\* C38: in the Hand module canPlayAny is true exactly when canPlay is true of
\* some index of the hand of the player in turn, and play is turned down as
\* an illegal play exactly when canPlay is false of the index played
C38_CanPlayAnyAgrees ==
    IsHand =>
        /\ canPlayAny(hand) <=> (hand.playerInTurn # Undefined /\ SomeCanPlay(hand))
        /\ ev.op = "play" => (ev.err = "Illegal play" <=> ~canPlay(ev.cardIdx, pre))
        /\ ev.op = "createHand" => AgreeOnEveryCard

\* a card that cannot be played was turned down while the player held
\* another card that can, which is not the first of the hand
C38_IllegalAmongLegal ==
    /\ IsHand /\ ev.op = "play" /\ ev.err = "Illegal play"
    /\ ~canPlay(ev.cardIdx, pre) /\ ~canPlay(0, hand) /\ canPlayAny(hand)


----------------------------------------------------------------------------
(* A catch before any card was played, in the Hand module *)

\* the call was the first call on the hand that createHand returned:
\* catchUnoFailure, with the hand before it as it was dealt
CatchOnDealtHand ==
    IsHand /\ CatchCall /\ steps = (IF ev.ok THEN 1 ELSE 0)

\* C39: catchUnoFailure on the hand that createHand returned, before any card
\* was played, penalises no player, the dealer included
C39_NoCatchBeforeAnyPlay ==
    CatchOnDealtHand =>
        /\ ~ev.caught
        /\ PostHands = PreHands

=============================================================================
